---- MODULE Spec2Model ----
(***************************************************************************)
(* Verification model of the intent-analysis pipeline                      *)
(* (src/intent_analyzer.py, src/intent_analyzer_single_call.py).           *)
(*                                                                         *)
(* SpecWindow : group_user_actions_by_session (the session windower).      *)
(* SpecBatch  : _ai_filter_valid_actions / _ai_segment_by_intent and their *)
(*              public callers, with the per-batch response correlation    *)
(*              of _parse_valid_action_indices / _parse_intent_segments.   *)
(* SpecParse  : the same two parsers on the response text, with the repair *)
(*              passes, json.loads and the regular-expression fallbacks.   *)
(* SpecRetry  : the model call sites and their retry loops (llm_request,   *)
(*              _ai_filter_batch, _ai_segment_batch, analyze_intent).      *)
(* SpecUser   : the processing of one user by either pipeline under        *)
(*              failing model calls.                                       *)
(* SpecAnalyze: analyze_user_intent of either pipeline from its arguments  *)
(*              to its return value, under the callers that write the      *)
(*              result file (src/run_analysis.py and the main functions).  *)
(* SpecPostPass: generate_operation_recommendations_batch run by two       *)
(*              writers on one result file.                                *)
(***************************************************************************)
EXTENDS Integers, Sequences, FiniteSets, Bags, TLC

VARIABLES
    \* ---- session windower ----
    user_actions,             \* the DataFrame passed to group_user_actions_by_session
    session_timeout_minutes,  \* its timeout argument
    sessions,                 \* the returned list of sessions
    wpc,                      \* "idle" | "call" | "done"
    \* ---- batcher and response correlator ----
    entry,                    \* "public" (filter_valid_actions / segment_actions_by_intent)
                              \* or "direct" (_ai_filter_valid_actions / _ai_segment_by_intent)
    stage,                    \* "filter" | "segment" | "idle"
    actions,                  \* the DataFrame handed to the stage
    batch_start,              \* loop variable of the batching loop
    calls,                    \* history of the model calls made: one record per batch
    all_valid_indices,        \* accumulator of _ai_filter_valid_actions
    all_segments,             \* accumulator of _ai_segment_by_intent
    valid_actions,            \* DataFrame returned by filter_valid_actions
    bpc,                      \* "idle" | "start" | "loop" | "done"
    \* ---- response parser on text ----
    ai_response,              \* the response text, a sequence of lexemes
    response_origin,          \* how the text was made: [kind, doc, pos]
    parser,                   \* "filter" | "segment" | "idle"
    parser_len,               \* len(batch) given to the parser
    parser_start,             \* start_index given to the parser
    parsed,                   \* what the parser did: [raised, value]
    ppc,                      \* "idle" | "call" | "done"
    \* ---- model call sites ----
    call_site,                \* "llm_request" | "_ai_filter_batch" |
                              \* "_ai_segment_batch" | "analyze_intent" | "idle"
    ClientConnectorError,     \* the class bound at import: "ClientConnectorError"
                              \* or, aiohttp missing, "Exception"
    attempt,                  \* loop variable of the retry loop
    call_log,                 \* outcome of every generate_content call so far
    sleeps,                   \* wait_time of every sleep so far
    call_outcome,             \* [kind, value]: "pending" | "returned" | "raised"
    rpc,                      \* "idle" | "call" | "sleep" | "done"
    \* ---- one user ----
    pipeline,                 \* "single_call" | "staged" | "idle"
    include_operation_recommendation,
    time_sessions,            \* len(time_sessions) of the user
    session_idx,              \* loop variable over the time sessions, from 1
    pending_segments,         \* intent segments not yet turned into a result
    all_session_results,      \* results appended so far
    user_outcome,             \* "running" | "returned" | "skipped" | "raised"
    upc,                      \* position in the per-user code, or "idle" | "done"
    \* ---- analyze_user_intent and its caller ----
    data_csv,                 \* what load_data returns for the file data.csv
    plan,                     \* the calls of analyze_user_intent the caller makes
    work_idx,                 \* the caller's position in plan, from 1
    all_results,              \* the caller's dictionary of results
    output_file,              \* content of the result file
    max_concurrent,           \* argument of the single-call analyze_user_intent
    analysis_df,              \* the DataFrame after loading and selecting users
    user_groups,              \* list(df.groupby("user_uuid"))
    group_idx,                \* position of the staged loop in user_groups, from 1
    body,                     \* locals of the staged loop body: valid_actions, ...
    results,                  \* the results dictionary being built / returned
    tasks,                    \* the user tasks of the single-call pipeline
    semaphore,                \* asyncio.Semaphore: [value, waiters]
    model_calls,              \* every model call issued, in order
    apc,                      \* position in analyze_user_intent, or "idle"
    \* ---- batch recommendation post-pass ----
    intent_results_file,      \* content of the result document on disk
    passes,                   \* locals of each running post-pass
    requests                  \* every generate_operation_recommendation call

wvars == <<user_actions, session_timeout_minutes, sessions, wpc>>
bvars == <<entry, stage, actions, batch_start, calls, all_valid_indices,
           all_segments, valid_actions, bpc>>
pvars == <<ai_response, response_origin, parser, parser_len, parser_start,
           parsed, ppc>>
rvars == <<call_site, ClientConnectorError, attempt, call_log, sleeps,
           call_outcome, rpc>>
uvars == <<pipeline, include_operation_recommendation, time_sessions, session_idx,
           pending_segments, all_session_results, user_outcome, upc>>
avars == <<data_csv, plan, work_idx, all_results, output_file, max_concurrent,
           analysis_df, user_groups, group_idx, body, results, tasks, semaphore,
           model_calls, apc>>
gvars == <<intent_results_file, passes, requests>>
vars == <<wvars, bvars, pvars, rvars, uvars, avars, gvars>>

(***************************************************************************)
(* Bounds                                                                  *)
(***************************************************************************)
MaxEvents == 4      \* longest event sequence given to the windower
MaxTime == 4        \* event times are minutes 0..MaxTime
MaxTimeout == 2     \* timeouts are 0..MaxTimeout minutes

(***************************************************************************)
(* Generic helpers                                                         *)
(***************************************************************************)
Min(a, b) == IF a <= b THEN a ELSE b

RECURSIVE Concat(_)
Concat(ss) == IF Len(ss) = 0 THEN <<>> ELSE Head(ss) \o Concat(Tail(ss))

RECURSIVE SumLen(_)
SumLen(ss) == IF Len(ss) = 0 THEN 0 ELSE Len(Head(ss)) + SumLen(Tail(ss))

(***************************************************************************)
(* Session windower                                                        *)
(***************************************************************************)
\* pd.to_datetime(..., errors='coerce') turns an unparsable timestamp into NaT.
\* Parsable timestamps have minute resolution and are modelled as minutes >= 0.
NaT == -1

\* (current_time - last_time).total_seconds() / 60: NaN as soon as one side is NaT.
TimeDiffMinutes(last_time, current_time) ==
    IF last_time = NaT \/ current_time = NaT
    THEN [nan |-> TRUE, minutes |-> 0]
    ELSE [nan |-> FALSE, minutes |-> current_time - last_time]

\* time_diff <= session_timeout_minutes: every comparison with NaN is False.
WithinTimeout_NanIsZero(time_diff, timeout) == time_diff.minutes <= timeout
WithinTimeout(time_diff, timeout) ==
    ~time_diff.nan /\ time_diff.minutes <= timeout

\* One iteration of the for loop; st = [sessions, current_session].
SessionStep_DropBoundaryRow(st, row, timeout) ==
    IF Len(st.current_session) = 0
    THEN [st EXCEPT !.current_session = <<row>>]
    ELSE LET last_time == st.current_session[Len(st.current_session)].event_time
             time_diff == TimeDiffMinutes(last_time, row.event_time)
         IN IF WithinTimeout(time_diff, timeout)
            THEN [st EXCEPT !.current_session = Append(@, row)]
            ELSE [sessions |-> Append(st.sessions, st.current_session),
                  current_session |-> <<>>]
SessionStep_GapFromSessionStart(st, row, timeout) ==
    IF Len(st.current_session) = 0
    THEN [st EXCEPT !.current_session = <<row>>]
    ELSE LET last_time == st.current_session[1].event_time
             time_diff == TimeDiffMinutes(last_time, row.event_time)
         IN IF WithinTimeout(time_diff, timeout)
            THEN [st EXCEPT !.current_session = Append(@, row)]
            ELSE [sessions |-> Append(st.sessions, st.current_session),
                  current_session |-> <<row>>]
SessionStep(st, row, timeout) ==
    IF Len(st.current_session) = 0
    THEN [st EXCEPT !.current_session = <<row>>]
    ELSE LET last_time == st.current_session[Len(st.current_session)].event_time
             time_diff == TimeDiffMinutes(last_time, row.event_time)
         IN IF WithinTimeout(time_diff, timeout)
            THEN [st EXCEPT !.current_session = Append(@, row)]
            ELSE [sessions |-> IF Len(st.current_session) > 0
                               THEN Append(st.sessions, st.current_session)
                               ELSE st.sessions,
                  current_session |-> <<row>>]

\* (the test on the length of current_session is never true: it has the loop
\* state computed at every iteration instead of as one nested expression at
\* the end, which a frame of 60 rows needs)
RECURSIVE SessionLoop(_, _, _, _)
SessionLoop(rows, i, timeout, st) ==
    IF i > Len(rows) \/ Len(st.current_session) > Len(rows) THEN st
    ELSE SessionLoop(rows, i + 1, timeout, SessionStep(st, rows[i], timeout))

group_user_actions_by_session(rows, timeout) ==
    IF Len(rows) = 0 THEN <<>>
    ELSE LET st == SessionLoop(rows, 1, timeout,
                               [sessions |-> <<>>, current_session |-> <<>>])
         IN IF Len(st.current_session) > 0
            THEN Append(st.sessions, st.current_session)
            ELSE st.sessions

TimeValues == (0 .. MaxTime) \cup {NaT}

\* Every event sequence of at most MaxEvents rows; a row keeps its identity.
EventSequences ==
    UNION { { [i \in 1 .. n |-> [id |-> i, event_time |-> ts[i]]] :
              ts \in [1 .. n -> TimeValues] } : n \in 0 .. MaxEvents }

AnalyzeIdle ==
    /\ data_csv = <<>> /\ plan = <<>> /\ work_idx = 0 /\ all_results = <<>>
    /\ output_file = <<>> /\ max_concurrent = 0 /\ analysis_df = <<>>
    /\ user_groups = <<>> /\ group_idx = 0 /\ body = <<>> /\ results = <<>>
    /\ tasks = <<>> /\ semaphore = <<>> /\ model_calls = <<>> /\ apc = "idle"

PostPassIdle ==
    /\ intent_results_file = <<>> /\ passes = <<>> /\ requests = <<>>

ParseIdle ==
    /\ ai_response = <<>> /\ response_origin = <<>> /\ parser = "idle"
    /\ parser_len = 0 /\ parser_start = 0 /\ parsed = <<>> /\ ppc = "idle"

RetryIdle ==
    /\ call_site = "idle" /\ ClientConnectorError = "idle" /\ attempt = 0
    /\ call_log = <<>> /\ sleeps = <<>> /\ call_outcome = <<>> /\ rpc = "idle"

UserIdle ==
    /\ pipeline = "idle" /\ include_operation_recommendation = FALSE
    /\ time_sessions = 0 /\ session_idx = 0
    /\ pending_segments = <<>> /\ all_session_results = <<>>
    /\ user_outcome = "idle" /\ upc = "idle"

BatchIdle ==
    /\ entry = "idle" /\ stage = "idle" /\ actions = <<>> /\ batch_start = 0
    /\ calls = <<>> /\ all_valid_indices = <<>> /\ all_segments = <<>>
    /\ valid_actions = <<>> /\ bpc = "idle"

InitWindow ==
    /\ user_actions \in EventSequences
    /\ session_timeout_minutes \in 0 .. MaxTimeout
    /\ sessions = <<>>
    /\ wpc = "call"
    /\ BatchIdle /\ ParseIdle /\ RetryIdle /\ UserIdle
    /\ AnalyzeIdle /\ PostPassIdle

GroupUserActionsBySession ==
    /\ wpc = "call"
    /\ sessions' = group_user_actions_by_session(user_actions, session_timeout_minutes)
    /\ wpc' = "done"
    /\ UNCHANGED <<user_actions, session_timeout_minutes, bvars, pvars, rvars, uvars>>
    /\ UNCHANGED <<avars, gvars>>

NextWindow == GroupUserActionsBySession

SpecWindow == InitWindow /\ [][NextWindow]_vars

(***************************************************************************)
(* Batcher and response correlator                                         *)
(***************************************************************************)
MAX_ACTIONS_PER_BATCH == 50

MaxN == 100         \* longest DataFrame handed to a stage
MaxShort == 7       \* every length 0..MaxShort is tried
MaxItems == 2       \* most verdicts in one validity response
MaxSegs == 2        \* most segments in one segmentation response

\* The lengths tried: the short ones, one batch ten rows short of full, one
\* full batch, a full batch followed by two rows, and two full batches.
Lengths ==
    { n \in 0 .. MaxN :
        \/ n <= MaxShort
        \/ n \in {MAX_ACTIONS_PER_BATCH - 10, MAX_ACTIONS_PER_BATCH,
                   MAX_ACTIONS_PER_BATCH + 2, 2 * MAX_ACTIONS_PER_BATCH} }

\* A DataFrame of n rows; a row is identified by its position in the frame.
DataFrame(n) == [i \in 1 .. n |-> [row_id |-> i - 1]]

\* df.iloc[pos]: 0-based, a negative position counts from the end.
IndexError == [row_id |-> -1]
Iloc(df, pos) ==
    IF 0 <= pos /\ pos < Len(df) THEN df[pos + 1]
    ELSE IF pos < 0 /\ -pos <= Len(df) THEN df[Len(df) + pos + 1]
    ELSE IndexError

\* df.iloc[list of positions]
IlocList(df, positions) == [k \in 1 .. Len(positions) |-> Iloc(df, positions[k])]

\* range(start_index, start_index + n) as a list
RangeList(start_index, n) == [k \in 1 .. n |-> start_index + k - 1]

\* 'index': start_index + pos_idx
ActionIndex_BatchLocal(start_index, pos_idx) == pos_idx
ActionIndex(start_index, pos_idx) == start_index + pos_idx

\* actions_list built for the prompt: the label of each row of the batch
ActionsList(batch_actions, start_index) ==
    [p \in 1 .. Len(batch_actions) |->
        [index |-> ActionIndex(start_index, p - 1), row |-> batch_actions[p]]]

\* batch_end = min(batch_start + MAX_ACTIONS_PER_BATCH, total_actions)
BatchEnd_OneShort(start, total_actions) ==
    Min(start + MAX_ACTIONS_PER_BATCH - 1, total_actions)
BatchEnd(start, total_actions) ==
    Min(start + MAX_ACTIONS_PER_BATCH, total_actions)

\* user_actions.iloc[batch_start:batch_end]
IlocSlice(df, from, to) == SubSeq(df, from + 1, to)

\* start_index <= idx < start_index + len(batch)
InRange_NoOffset(idx, start_index, n) == 0 <= idx /\ idx < start_index + n
InRange(idx, start_index, n) == start_index <= idx /\ idx < start_index + n

\* ---- validity filter: lines 678-688 on the parsed response ----
JsonValidIndices(items, start_index, n) ==
    LET kept == SelectSeq(items, LAMBDA it :
                    it.is_valid /\ InRange(it.index, start_index, n))
    IN [k \in 1 .. Len(kept) |-> kept[k].index]

\* _extract_indices_with_regex: \d+ matches only a non-negative index
_extract_indices_with_regex(response, n, start_index) ==
    LET items == response.valid_actions
        matches1 == SelectSeq(items, LAMBDA it : it.index >= 0)
        method1 == JsonValidIndices(matches1, start_index, n)
        indices == SelectSeq(items, LAMBDA it : it.index >= 0)
        valid_flags == items
        method2 == IF Len(indices) = Len(valid_flags)
                   THEN LET zipped == [k \in 1 .. Len(indices) |->
                                [index |-> indices[k].index,
                                 is_valid |-> valid_flags[k].is_valid]]
                        IN JsonValidIndices(zipped, start_index, n)
                   ELSE <<>>
    IN IF Len(method1) > 0 THEN method1
       ELSE IF Len(method2) > 0 THEN method2
       ELSE RangeList(start_index, n)

_parse_valid_action_indices_AsMarked(response, n, start_index) ==
    IF response.kind = "json"
    THEN JsonValidIndices(response.valid_actions, start_index, n)
    ELSE _extract_indices_with_regex(response, n, start_index)
_parse_valid_action_indices(response, n, start_index) ==
    IF response.kind = "json"
    THEN LET valid_indices == JsonValidIndices(response.valid_actions, start_index, n)
         IN IF Len(valid_indices) > 0 THEN valid_indices
            ELSE _extract_indices_with_regex(response, n, start_index)
    ELSE _extract_indices_with_regex(response, n, start_index)

\* ---- segmentation: lines 986-1002 on the parsed response ----
\* valid_indices = [idx for idx in behavior_indices if in range]
SegmentValidIndices(behavior_indices, start_index, n) ==
    SelectSeq(behavior_indices, LAMBDA idx : InRange(idx, start_index, n))

\* segment_actions = [valid_actions.iloc[idx - start_index] for idx in valid_indices]
SegmentActions(batch_actions, valid_indices, start_index) ==
    [k \in 1 .. Len(valid_indices) |-> Iloc(batch_actions, valid_indices[k] - start_index)]

\* (a correlator that lets the first segment naming an index keep it)
RECURSIVE KeepFresh(_, _)
KeepFresh(indices, seen) ==
    IF Len(indices) = 0 THEN <<>>
    ELSE IF Head(indices) \in seen THEN KeepFresh(Tail(indices), seen)
    ELSE <<Head(indices)>> \o KeepFresh(Tail(indices), seen \cup {Head(indices)})
JsonSegments_FirstClaimWins(segment_infos, batch_actions, start_index) ==
    LET valid(k) == SegmentValidIndices(segment_infos[k].behavior_indices,
                                        start_index, Len(batch_actions))
        consumed(k) == UNION { { valid(j)[i] : i \in 1 .. Len(valid(j)) } :
                               j \in 1 .. k - 1 }
        per == [k \in 1 .. Len(segment_infos) |->
                   SegmentActions(batch_actions, KeepFresh(valid(k), consumed(k)),
                                  start_index)]
    IN SelectSeq(per, LAMBDA seg : Len(seg) > 0)
JsonSegments(segment_infos, batch_actions, start_index) ==
    LET per == [k \in 1 .. Len(segment_infos) |->
                   SegmentActions(batch_actions,
                       SegmentValidIndices(segment_infos[k].behavior_indices,
                                           start_index, Len(batch_actions)),
                       start_index)]
    IN SelectSeq(per, LAMBDA seg : Len(seg) > 0)

\* lines 1050-1065 and _extract_segments_with_regex: every non-empty
\* "behavior_indices" array of the text, its non-negative numbers
_extract_segments_with_regex(response, batch_actions, start_index) ==
    LET arrays == SelectSeq(response.intent_segments,
                            LAMBDA s : Len(s.behavior_indices) > 0)
        digits == [k \in 1 .. Len(arrays) |->
                      [behavior_indices |->
                          SelectSeq(arrays[k].behavior_indices, LAMBDA x : x >= 0)]]
        segments == JsonSegments(digits, batch_actions, start_index)
    IN IF Len(segments) > 0 THEN segments ELSE <<batch_actions>>

_parse_intent_segments(response, batch_actions, start_index) ==
    IF response.kind = "json"
    THEN LET segments == JsonSegments(response.intent_segments, batch_actions, start_index)
         IN IF Len(segments) > 0 THEN segments
            ELSE _extract_segments_with_regex(response, batch_actions, start_index)
    ELSE _extract_segments_with_regex(response, batch_actions, start_index)

\* ---- what the model may answer for a batch ----
SeqsUpTo(S, m) == UNION { [1 .. k -> S] : k \in 0 .. m }

\* indices the model may name: just below the batch, its first two rows,
\* just above the batch
CandidateIndices(start_index, n) ==
    {start_index - 1, start_index, start_index + 1, start_index + n}

FilterItems(start_index, n) ==
    { [index |-> c, is_valid |-> TRUE] : c \in CandidateIndices(start_index, n) }
    \cup { [index |-> start_index, is_valid |-> FALSE] }

FilterResponses(start_index, n) ==
    { [kind |-> "json", valid_actions |-> its] :
          its \in SeqsUpTo(FilterItems(start_index, n), MaxItems) }
    \cup { [kind |-> "garbage", valid_actions |-> <<>>] }

\* index lists the model may give for a segment: the first half of the
\* batch, the tail after a hole of five rows behind the first half (empty
\* for a short batch), the whole batch, two rows in reverse order followed by
\* the index just above the batch, the index just below the batch followed
\* by one row twice
IndexLists(start_index, n) ==
    LET h == n \div 2
        First == [k \in 1 .. h |-> start_index + k - 1]
        Tail5 == IF n > h + 5 THEN [k \in 1 .. n - h - 5 |-> start_index + h + 5 + k - 1]
                 ELSE <<>>
    IN { First, Tail5, RangeList(start_index, n),
         <<start_index + 1, start_index, start_index + n>>,
         <<start_index - 1, start_index, start_index>> }

SegmentResponses(start_index, n) ==
    { [kind |-> "json",
       intent_segments |-> [k \in 1 .. Len(ls) |-> [behavior_indices |-> ls[k]]]] :
          ls \in SeqsUpTo(IndexLists(start_index, n), MaxSegs) }
    \cup { [kind |-> "garbage", intent_segments |-> <<>>] }

\* ---- the record kept of one model call ----
CallRecord(batch_actions, start_index, response, result) ==
    [start_index |-> start_index,
     actions_list |-> ActionsList(batch_actions, start_index),
     response |-> response,
     result |-> result]

WindowIdle ==
    /\ user_actions = <<>> /\ session_timeout_minutes = 0
    /\ sessions = <<>> /\ wpc = "idle"

\* The stage is entered through its public function; the private batching
\* function is also called directly on the short frames, which include the
\* lengths its public caller never passes on.
InitBatch ==
    /\ entry \in {"public", "direct"}
    /\ stage \in {"filter", "segment"}
    /\ actions \in { DataFrame(n) : n \in Lengths }
    /\ entry = "direct" => Len(actions) <= MaxShort
    /\ batch_start = 0
    /\ calls = <<>>
    /\ all_valid_indices = <<>>
    /\ all_segments = <<>>
    /\ valid_actions = <<>>
    /\ bpc = "start"
    /\ WindowIdle /\ ParseIdle /\ RetryIdle /\ UserIdle
    /\ AnalyzeIdle /\ PostPassIdle

\* filter_valid_actions, lines 98-99: no model call for an empty frame
FilterValidActionsEmpty ==
    /\ stage = "filter" /\ entry = "public" /\ bpc = "start"
    /\ Len(actions) = 0
    /\ valid_actions' = actions
    /\ bpc' = "done"
    /\ UNCHANGED <<entry, stage, actions, batch_start, calls, all_valid_indices,
                   all_segments, wvars, pvars, rvars, uvars>>
    /\ UNCHANGED <<avars, gvars>>

\* _ai_filter_valid_actions, lines 145-147: one batch with start_index 0
AiFilterSingleBatch ==
    /\ stage = "filter" /\ bpc = "start"
    /\ entry = "public" => Len(actions) > 0
    /\ Len(actions) <= MAX_ACTIONS_PER_BATCH
    /\ \E response \in FilterResponses(0, Len(actions)) :
         LET result == _parse_valid_action_indices(response, Len(actions), 0)
         IN /\ calls' = Append(calls, CallRecord(actions, 0, response, result))
            /\ all_valid_indices' = result
            /\ valid_actions' = IF entry = "public" THEN IlocList(actions, result)
                                ELSE <<>>
    /\ bpc' = "done"
    /\ UNCHANGED <<entry, stage, actions, batch_start, all_segments, wvars, pvars, rvars, uvars>>
    /\ UNCHANGED <<avars, gvars>>

\* _ai_filter_valid_actions, lines 150-159: one iteration of the batch loop
AiFilterLoopBatch ==
    /\ stage = "filter" /\ bpc \in {"start", "loop"}
    /\ Len(actions) > MAX_ACTIONS_PER_BATCH
    /\ batch_start < Len(actions)
    /\ LET batch_end == BatchEnd(batch_start, Len(actions))
           batch_actions == IlocSlice(actions, batch_start, batch_end)
           more == batch_start + MAX_ACTIONS_PER_BATCH < Len(actions)
       IN \E response \in FilterResponses(batch_start, Len(batch_actions)) :
            LET result == _parse_valid_action_indices(response, Len(batch_actions),
                                                      batch_start)
            IN /\ calls' = Append(calls, CallRecord(batch_actions, batch_start,
                                                    response, result))
               /\ all_valid_indices' = all_valid_indices \o result
               /\ valid_actions' =
                      IF ~more /\ entry = "public"
                      THEN IlocList(actions, all_valid_indices \o result)
                      ELSE <<>>
               /\ bpc' = IF more THEN "loop" ELSE "done"
    /\ batch_start' = batch_start + MAX_ACTIONS_PER_BATCH
    /\ UNCHANGED <<entry, stage, actions, all_segments, wvars, pvars, rvars, uvars>>
    /\ UNCHANGED <<avars, gvars>>

\* segment_actions_by_intent, lines 119-124: no model call up to 5 actions
SegmentActionsShort ==
    /\ stage = "segment" /\ entry = "public" /\ bpc = "start"
    /\ Len(actions) <= 5
    /\ all_segments' = IF Len(actions) = 0 THEN <<>> ELSE <<actions>>
    /\ bpc' = "done"
    /\ UNCHANGED <<entry, stage, actions, batch_start, calls, all_valid_indices,
                   valid_actions, wvars, pvars, rvars, uvars>>
    /\ UNCHANGED <<avars, gvars>>

\* _ai_segment_by_intent, lines 793-795: one batch with start_index 0
AiSegmentSingleBatch_AnyLength ==
    /\ stage = "segment" /\ bpc = "start"
    /\ entry = "public" => Len(actions) > 0
    /\ Len(actions) <= MAX_ACTIONS_PER_BATCH
    /\ \E response \in SegmentResponses(0, Len(actions)) :
         LET result == _parse_intent_segments(response, actions, 0)
         IN /\ calls' = Append(calls, CallRecord(actions, 0, response, result))
            /\ all_segments' = result
    /\ bpc' = "done"
    /\ UNCHANGED <<entry, stage, actions, batch_start, all_valid_indices,
                   valid_actions, wvars, pvars, rvars, uvars>>
    /\ UNCHANGED <<avars, gvars>>
AiSegmentSingleBatch ==
    /\ stage = "segment" /\ bpc = "start"
    /\ entry = "public" => Len(actions) > 5
    /\ Len(actions) <= MAX_ACTIONS_PER_BATCH
    /\ \E response \in SegmentResponses(0, Len(actions)) :
         LET result == _parse_intent_segments(response, actions, 0)
         IN /\ calls' = Append(calls, CallRecord(actions, 0, response, result))
            /\ all_segments' = result
    /\ bpc' = "done"
    /\ UNCHANGED <<entry, stage, actions, batch_start, all_valid_indices,
                   valid_actions, wvars, pvars, rvars, uvars>>
    /\ UNCHANGED <<avars, gvars>>

\* _ai_segment_by_intent, lines 798-807: one iteration of the batch loop
AiSegmentLoopBatch_WholeFrame ==
    /\ stage = "segment" /\ bpc \in {"start", "loop"}
    /\ Len(actions) > MAX_ACTIONS_PER_BATCH
    /\ batch_start < Len(actions)
    /\ LET batch_end == BatchEnd(batch_start, Len(actions))
           batch_actions == IlocSlice(actions, batch_start, batch_end)
           more == batch_start + MAX_ACTIONS_PER_BATCH < Len(actions)
       IN \E response \in SegmentResponses(batch_start, Len(batch_actions)) :
            LET result == _parse_intent_segments(response, actions, 0)
            IN /\ calls' = Append(calls, CallRecord(batch_actions, batch_start,
                                                    response, result))
               /\ all_segments' = all_segments \o result
               /\ bpc' = IF more THEN "loop" ELSE "done"
    /\ batch_start' = batch_start + MAX_ACTIONS_PER_BATCH
    /\ UNCHANGED <<entry, stage, actions, all_valid_indices, valid_actions, wvars, pvars, rvars, uvars>>
    /\ UNCHANGED <<avars, gvars>>
AiSegmentLoopBatch ==
    /\ stage = "segment" /\ bpc \in {"start", "loop"}
    /\ Len(actions) > MAX_ACTIONS_PER_BATCH
    /\ batch_start < Len(actions)
    /\ LET batch_end == BatchEnd(batch_start, Len(actions))
           batch_actions == IlocSlice(actions, batch_start, batch_end)
           more == batch_start + MAX_ACTIONS_PER_BATCH < Len(actions)
       IN \E response \in SegmentResponses(batch_start, Len(batch_actions)) :
            LET result == _parse_intent_segments(response, batch_actions, batch_start)
            IN /\ calls' = Append(calls, CallRecord(batch_actions, batch_start,
                                                    response, result))
               /\ all_segments' = all_segments \o result
               /\ bpc' = IF more THEN "loop" ELSE "done"
    /\ batch_start' = batch_start + MAX_ACTIONS_PER_BATCH
    /\ UNCHANGED <<entry, stage, actions, all_valid_indices, valid_actions, wvars, pvars, rvars, uvars>>
    /\ UNCHANGED <<avars, gvars>>

NextBatch ==
    \/ FilterValidActionsEmpty
    \/ AiFilterSingleBatch
    \/ AiFilterLoopBatch
    \/ SegmentActionsShort
    \/ AiSegmentSingleBatch
    \/ AiSegmentLoopBatch

SpecBatch == InitBatch /\ [][NextBatch]_vars

(***************************************************************************)
(* Claims on the session windower                                          *)
(***************************************************************************)
\* Position (1-based) in user_actions of the first row of session k.
SessionStartPos(k) == SumLen(SubSeq(sessions, 1, k - 1)) + 1

\* "the gap exceeds the timeout", an unparsable timestamp counting as an
\* infinite gap
Exceeds(time_diff, timeout) == time_diff.nan \/ time_diff.minutes > timeout

\* C1: the returned sessions partition the input: their concatenation in
\* output order is the input sequence, every session is non-empty, zero
\* events give an empty list, and inside a session every non-first event is
\* at most `timeout` minutes after the event just before it.
C1_SessionsPartitionInput ==
    wpc = "done" =>
        /\ Concat(sessions) = user_actions
        /\ \A k \in 1 .. Len(sessions) : Len(sessions[k]) > 0
        /\ (Len(user_actions) = 0 => sessions = <<>>)
        /\ \A k \in 1 .. Len(sessions) : \A j \in 2 .. Len(sessions[k]) :
               LET d == TimeDiffMinutes(sessions[k][j - 1].event_time,
                                        sessions[k][j].event_time)
               IN ~d.nan /\ d.minutes <= session_timeout_minutes

C1_Witness ==
    /\ wpc = "done"
    /\ Len(user_actions) = MaxEvents
    /\ Len(sessions) = 2
    /\ Len(sessions[1]) = 2

\* C2: sessions are maximal: between two consecutive sessions the gap from
\* the last event of the earlier one to the first event of the later one
\* exceeds the timeout, and a boundary sits before an event if and only if
\* its gap to the previous event exceeds the timeout.
C2_SessionsMaximal ==
    wpc = "done" =>
        /\ \A k \in 1 .. Len(sessions) - 1 :
               Exceeds(TimeDiffMinutes(sessions[k][Len(sessions[k])].event_time,
                                       sessions[k + 1][1].event_time),
                       session_timeout_minutes)
        /\ \A p \in 2 .. Len(user_actions) :
               (\E k \in 2 .. Len(sessions) : SessionStartPos(k) = p)
               <=> Exceeds(TimeDiffMinutes(user_actions[p - 1].event_time,
                                           user_actions[p].event_time),
                           session_timeout_minutes)

\* a session that is longer than the timeout from its first to its last
\* event, followed by a boundary: the gap is measured to the previous event
C2_Witness ==
    /\ wpc = "done"
    /\ Len(sessions) = 2
    /\ Len(sessions[1]) = 3
    /\ sessions[1][1].event_time # NaT /\ sessions[1][3].event_time # NaT
    /\ sessions[1][3].event_time - sessions[1][1].event_time > session_timeout_minutes
    /\ sessions[2][1].event_time # NaT

\* C3: an event with an unparsable (null) timestamp that is not the first
\* event starts a new session, the event after it starts a new session too,
\* and the windower returns for every mix of parsable and unparsable
\* timestamps.
C3_NullTimestampStartsSession ==
    wpc = "done" =>
        /\ Concat(sessions) = user_actions
        /\ \A p \in 1 .. Len(user_actions) :
               user_actions[p].event_time = NaT =>
                   /\ \E k \in 1 .. Len(sessions) : SessionStartPos(k) = p
                   /\ p < Len(user_actions) =>
                          \E k \in 1 .. Len(sessions) : SessionStartPos(k) = p + 1

C3_Witness ==
    /\ wpc = "done"
    /\ Len(user_actions) = 3
    /\ user_actions[1].event_time = 0
    /\ user_actions[2].event_time = NaT
    /\ user_actions[3].event_time = 0
    /\ Len(sessions) = 3

(***************************************************************************)
(* Claims on the batcher and the response correlator                       *)
(***************************************************************************)
N == Len(actions)
CeilDiv(n, b) == (n + b - 1) \div b

\* the private batching function was entered (its public caller did not
\* return before it)
Invoked ==
    \/ entry = "direct"
    \/ stage = "filter" /\ N > 0
    \/ stage = "segment" /\ N > 5

\* A record of calls is written once, when its call returns, and never
\* changed: what holds of the latest record in every state holds of all.
Latest == IF Len(calls) = 0 THEN {} ELSE {Len(calls)}

BatchLen(call) == Len(call.actions_list)
BatchRows(call) == [p \in 1 .. BatchLen(call) |-> call.actions_list[p].row]
SentIndices(call) == [p \in 1 .. BatchLen(call) |-> call.actions_list[p].index]
AllBatchRows == Concat([k \in 1 .. Len(calls) |-> BatchRows(calls[k])])
AllSentIndices == Concat([k \in 1 .. Len(calls) |-> SentIndices(calls[k])])

Range(seq) == { seq[j] : j \in 1 .. Len(seq) }

StrictlyIncreasing(seq) == \A j \in 1 .. Len(seq) - 1 : seq[j] < seq[j + 1]

\* the issued batches are the contiguous slices [0,B), [B,2B), ... and only
\* the last one may be shorter than B
SlicesContiguous ==
    /\ \A k \in Latest :
          /\ calls[k].start_index = (k - 1) * MAX_ACTIONS_PER_BATCH
          /\ BatchLen(calls[k]) <= MAX_ACTIONS_PER_BATCH
          /\ BatchRows(calls[k]) =
                SubSeq(actions, calls[k].start_index + 1,
                       calls[k].start_index + BatchLen(calls[k]))
    /\ \A k \in 1 .. Len(calls) - 1 : BatchLen(calls[k]) = MAX_ACTIONS_PER_BATCH
    /\ (bpc = "done" /\ Invoked) => AllBatchRows = actions

DeclaredInRange(call) ==
    LET lo == call.start_index
        hi == call.start_index + BatchLen(call)
        infos == call.response.intent_segments
        lists == [k \in 1 .. Len(infos) |->
                     SelectSeq(infos[k].behavior_indices,
                               LAMBDA i : lo <= i /\ i < hi)]
    IN SelectSeq(lists, LAMBDA l : Len(l) > 0)

\* row r is the row that was shown to the model under index i in this call
ShownAs(call, i, r) ==
    LET p == i - call.start_index + 1
    IN /\ p \in 1 .. BatchLen(call)
       /\ call.actions_list[p].index = i
       /\ call.actions_list[p].row = r

\* C5: the index shown for the row at position p of a batch is
\* start_index + p; over a whole batched run the indices sent are exactly
\* 0..N-1, each once; and a returned index i is mapped back to the row that
\* was shown under i.
C5_IndexIsStartPlusPosition ==
    /\ \A k \in Latest : \A p \in 1 .. BatchLen(calls[k]) :
          /\ calls[k].actions_list[p].index = calls[k].start_index + (p - 1)
          /\ calls[k].actions_list[p].row = actions[calls[k].actions_list[p].index + 1]
    /\ (bpc = "done" /\ Invoked) => AllSentIndices = [i \in 1 .. N |-> i - 1]
    /\ (stage = "segment") =>
          \A k \in Latest :
              LET D == DeclaredInRange(calls[k])
              IN Len(D) > 0 =>
                    /\ Len(calls[k].result) = Len(D)
                    /\ \A s \in 1 .. Len(D) :
                          /\ Len(calls[k].result[s]) = Len(D[s])
                          /\ \A j \in 1 .. Len(D[s]) :
                                ShownAs(calls[k], D[s][j], calls[k].result[s][j])
    /\ (stage = "filter" /\ entry = "public" /\ bpc = "done") =>
          /\ Len(valid_actions) = Len(all_valid_indices)
          /\ \A j \in 1 .. Len(all_valid_indices) :
                \E k \in 1 .. Len(calls) :
                    ShownAs(calls[k], all_valid_indices[j], valid_actions[j])

\* a second batch whose answer names rows of that batch
C5_Witness ==
    /\ bpc = "done"
    /\ stage = "segment"
    /\ Len(calls) = 2
    /\ calls[2].start_index = MAX_ACTIONS_PER_BATCH
    /\ Len(DeclaredInRange(calls[2])) = 2

C7_ValidIndicesStrictlyIncreasing ==
    stage = "filter" =>
        /\ \A k \in Latest : StrictlyIncreasing(calls[k].result)
        /\ (entry = "public" /\ bpc = "done") =>
               StrictlyIncreasing([j \in 1 .. Len(valid_actions) |->
                                      valid_actions[j].row_id])

C9_CoverageLaw ==
    (stage = "segment" /\ bpc = "done") =>
        /\ SumLen(all_segments) = N
        /\ Range(Concat(all_segments)) = Range(actions)

\* the rows of a batch that no declared segment names, in index order
Leftover(call) ==
    LET claimed == Range(Concat(DeclaredInRange(call)))
        unclaimed == SelectSeq(call.actions_list, LAMBDA a : a.index \notin claimed)
    IN [j \in 1 .. Len(unclaimed) |-> unclaimed[j].row]

\* C10 (as stated): the rows left unclaimed by the model's segments are
\* appended in index order to the last returned segment; with no usable
\* segment one segment holding all rows is created.
C10_LeftoverSweep ==
    stage = "segment" =>
        \A k \in Latest :
            LET D == DeclaredInRange(calls[k])
                L == Leftover(calls[k])
                res == calls[k].result
            IN /\ Len(D) = 0 => res = <<BatchRows(calls[k])>>
               /\ Len(D) > 0 =>
                     /\ Len(res) = Len(D)
                     /\ Len(res[Len(res)]) >= Len(L)
                     /\ SubSeq(res[Len(res)], Len(res[Len(res)]) - Len(L) + 1,
                               Len(res[Len(res)])) = L

(***************************************************************************)
(* Response text                                                           *)
(*                                                                         *)
(* A text is a sequence of lexemes.  A lexeme is one character of          *)
(* punctuation or white space, or one maximal run of word characters (\w+  *)
(* of the regular expressions): a key, a literal, a numeral, a word of a   *)
(* message.  Every character test of the parsers is a test on a lexeme.    *)
(***************************************************************************)
QUOTE == "\""
BACKSLASH == "\\"
APOSTROPHE == "'"

\* the character U+00B2 (superscript two): str.isdigit() is True, \d does
\* not match it, int() raises ValueError, it is not in string.printable
SUPERSCRIPT_TWO == "U+00B2"

\* ' ', '\n', '\r', '\t' (\s of the regular expressions)
Whitespace == {" ", "\n"}

Punctuation == {"{", "}", "[", "]", ",", ":", "-", QUOTE, BACKSLASH, APOSTROPHE}

\* \w+
IsWord(x) == x \notin Whitespace \cup Punctuation

MaxNumeral == 60    \* numerals 0..MaxNumeral can be written in a text

Digit == <<"0", "1", "2", "3", "4", "5", "6", "7", "8", "9">>

\* str(i)
RECURSIVE Numeral(_)
Numeral(i) ==
    IF i < 10 THEN Digit[i + 1] ELSE Numeral(i \div 10) \o Digit[(i % 10) + 1]

NumeralValue == [i \in 0 .. MaxNumeral |-> Numeral(i)]

\* \d+ matches the lexeme
IsDecimal(x) == \E i \in 0 .. MaxNumeral : NumeralValue[i] = x

\* int(x) of a lexeme matched by \d+
IntOf(x) == CHOOSE i \in 0 .. MaxNumeral : NumeralValue[i] = x

\* x.isdigit()
IsDigitStr(x) == IsDecimal(x) \/ x = SUPERSCRIPT_TWO

Max(a, b) == IF a >= b THEN a ELSE b

\* text.find(c), text.rfind(c): 1-based position, 0 when absent
Find(text, c) ==
    IF \E i \in 1 .. Len(text) : text[i] = c
    THEN CHOOSE i \in 1 .. Len(text) :
             text[i] = c /\ \A j \in 1 .. i - 1 : text[j] # c
    ELSE 0
RFind(text, c) ==
    IF \E i \in 1 .. Len(text) : text[i] = c
    THEN CHOOSE i \in 1 .. Len(text) :
             text[i] = c /\ \A j \in i + 1 .. Len(text) : text[j] # c
    ELSE 0

\* pat in text
HasSub(text, pat) ==
    \E i \in 1 .. Len(text) - Len(pat) + 1 :
        \A k \in 1 .. Len(pat) : text[i + k - 1] = pat[k]

\* the lexeme at position i, "" past the end
At(text, i) == IF i >= 1 /\ i <= Len(text) THEN text[i] ELSE ""

\* position of the first lexeme at or after i that is not white space
\* (Len(text) + 1 when there is none): what \s* skips
RECURSIVE SkipWs(_, _)
SkipWs(text, i) ==
    IF i >= 1 /\ i <= Len(text) /\ text[i] \in Whitespace
    THEN SkipWs(text, i + 1) ELSE i

\* text.strip()
RECURSIVE RStrip(_)
RStrip(text) ==
    IF Len(text) > 0 /\ text[Len(text)] \in Whitespace
    THEN RStrip(SubSeq(text, 1, Len(text) - 1)) ELSE text
Strip(text) == LET r == RStrip(text) IN SubSeq(r, SkipWs(r, 1), Len(r))

(***************************************************************************)
(* _fix_json_comma_errors                                                  *)
(***************************************************************************)
\* lines 354-377: the three cases in which a comma is put before `char`
NeedsComma(st, json_str, i) ==
    LET char == json_str[i]
        lookahead == SubSeq(json_str, i, Min(i + 19, Len(json_str)))
        lookback20 == SubSeq(st.result, Max(1, st.last_token_end - 19),
                             Len(st.result))
        lookback10 == Strip(SubSeq(st.result, Max(1, st.last_token_end - 9),
                                   Len(st.result)))
        keyAhead == HasSub(lookahead, <<QUOTE, ":">>)
    IN /\ st.last_token_end > 0 /\ st.last_non_whitespace # ""
       /\ IF st.last_non_whitespace \in {"}", "]"} /\ char = QUOTE
          THEN keyAhead
          ELSE IF st.last_non_whitespace = QUOTE /\ char = QUOTE
          THEN /\ \/ HasSub(lookback20, <<QUOTE, ":">>)
                  \/ (Len(Strip(lookback20)) > 0
                      /\ Strip(lookback20)[Len(Strip(lookback20))] = QUOTE)
               /\ keyAhead
          ELSE IF char = QUOTE
          THEN /\ Len(lookback10) > 0
               /\ \/ lookback10[Len(lookback10)] \in
                         {"}", "]", "true", "false", "null"}
                  \/ IsDecimal(lookback10[Len(lookback10)])
               /\ keyAhead
          ELSE FALSE

\* one iteration of the while loop, lines 313-382
CommaStep(st, json_str, i) ==
    LET char == json_str[i]
    IN IF st.escape_next
       THEN [st EXCEPT !.result = Append(@, char), !.escape_next = FALSE]
       ELSE IF char = BACKSLASH
       THEN [st EXCEPT !.result = Append(@, char), !.escape_next = TRUE]
       ELSE IF char = QUOTE
       THEN IF ~st.in_string
            THEN [st EXCEPT !.in_string = TRUE, !.result = Append(@, char)]
            ELSE [st EXCEPT !.in_string = FALSE, !.result = Append(@, char),
                            !.last_token_end = Len(st.result) + 1,
                            !.last_non_whitespace = QUOTE]
       ELSE IF st.in_string \/ char \in Whitespace
       THEN [st EXCEPT !.result = Append(@, char)]
       ELSE LET out == IF NeedsComma(st, json_str, i)
                       THEN st.result \o <<",", char>>
                       ELSE Append(st.result, char)
            IN [st EXCEPT !.result = out, !.last_non_whitespace = char,
                          !.last_token_end = Len(out)]

\* the iterations lo..hi of the while loop from state st: those of the first
\* half, then those of the second half from the state the first half left
RECURSIVE CommaLoop(_, _, _, _)
CommaLoop(st, json_str, lo, hi) ==
    IF lo > hi THEN st
    ELSE IF lo = hi THEN CommaStep(st, json_str, lo)
    ELSE LET mid == (lo + hi) \div 2
             first == CommaLoop(st, json_str, lo, mid)
         IN IF first.escape_next \in BOOLEAN
            THEN CommaLoop(first, json_str, mid + 1, hi) ELSE first

_fix_json_comma_errors(json_str) ==
    CommaLoop([result |-> <<>>, in_string |-> FALSE, escape_next |-> FALSE,
               last_non_whitespace |-> "", last_token_end |-> -1],
              json_str, 1, Len(json_str)).result

(***************************************************************************)
(* _fix_json_format                                                        *)
(***************************************************************************)
\* re.sub(pattern, repl, text) for the matches given: each one is
\* [start, stop, repl], the lexemes start..stop replaced by repl; the
\* leftmost match at or after i is taken and the search goes on after it
RECURSIVE ReSub(_, _, _)
ReSub(text, matches, i) ==
    LET later == { m \in matches : m.start >= i }
        m == CHOOSE x \in later : \A y \in later : x.start <= y.start
    IN IF later = {} THEN SubSeq(text, i, Len(text))
       ELSE SubSeq(text, i, m.start - 1) \o m.repl \o ReSub(text, matches, m.stop + 1)

\* re.sub(r',(\s*[}\]])', r'\1', json_str): a comma whose next lexeme after
\* white space closes an object or an array is dropped, wherever it stands
StripTrailingCommas(json_str) ==
    ReSub(json_str,
          { [start |-> i, stop |-> SkipWs(json_str, i + 1),
             repl |-> SubSeq(json_str, i + 1, SkipWs(json_str, i + 1))] :
              i \in { k \in 1 .. Len(json_str) :
                        /\ json_str[k] = ","
                        /\ At(json_str, SkipWs(json_str, k + 1)) \in {"}", "]"} } },
          1)

\* lines 405-453: control characters inside a string are escaped
ControlEscape == [c \in {"\n"} |-> <<BACKSLASH, "n">>]

\* one iteration of the while loop, lines 411-451
EscapeStep(st, json_str, i) ==
    LET char == json_str[i]
    IN IF st.escape_next
       THEN [st EXCEPT !.result = Append(@, char), !.escape_next = FALSE]
       ELSE IF char = BACKSLASH
       THEN [st EXCEPT !.result = Append(@, char), !.escape_next = TRUE]
       ELSE IF char = QUOTE
       THEN [st EXCEPT !.result = Append(@, char), !.in_string = ~@]
       ELSE IF st.in_string /\ char \in DOMAIN ControlEscape
       THEN [st EXCEPT !.result = @ \o ControlEscape[char]]
       ELSE [st EXCEPT !.result = Append(@, char)]

RECURSIVE EscapeLoop(_, _, _, _)
EscapeLoop(st, json_str, lo, hi) ==
    IF lo > hi THEN st
    ELSE IF lo = hi THEN EscapeStep(st, json_str, lo)
    ELSE LET mid == (lo + hi) \div 2
             first == EscapeLoop(st, json_str, lo, mid)
         IN IF first.escape_next \in BOOLEAN
            THEN EscapeLoop(first, json_str, mid + 1, hi) ELSE first

EscapeControlInStrings(json_str) ==
    EscapeLoop([result |-> <<>>, in_string |-> FALSE, escape_next |-> FALSE],
               json_str, 1, Len(json_str)).result

\* re.sub(r"'(\w+)':", r'"\1":', json_str)
QuoteKeys(json_str) ==
    ReSub(json_str,
          { [start |-> i, stop |-> i + 3,
             repl |-> <<QUOTE, json_str[i + 1], QUOTE, ":">>] :
              i \in { k \in 1 .. Len(json_str) - 3 :
                        /\ json_str[k] = APOSTROPHE /\ IsWord(json_str[k + 1])
                        /\ json_str[k + 2] = APOSTROPHE /\ json_str[k + 3] = ":" } },
          1)

\* replace_simple_string_quotes, lines 461-467, for the match that starts at
\* the colon i: the content between the apostrophes is kept as it stands
\* when it holds a line break, a backslash or a double quote
SimpleStringQuotes(json_str, i) ==
    LET open == SkipWs(json_str, i + 1)
        close == CHOOSE j \in open + 1 .. Len(json_str) :
                     /\ json_str[j] = APOSTROPHE
                     /\ \A k \in open + 1 .. j - 1 : json_str[k] # APOSTROPHE
        content == SubSeq(json_str, open + 1, close - 1)
    IN [start |-> i, stop |-> close,
        repl |-> IF \E k \in 1 .. Len(content) :
                        content[k] \in {"\n", BACKSLASH, QUOTE}
                 THEN SubSeq(json_str, i, close)
                 ELSE <<":", " ", QUOTE>> \o content \o <<QUOTE>>]

\* re.sub(r":\s*'([^']*)'", replace_simple_string_quotes, json_str)
QuoteValues(json_str) ==
    ReSub(json_str,
          { SimpleStringQuotes(json_str, i) :
              i \in { k \in 1 .. Len(json_str) :
                        /\ json_str[k] = ":"
                        /\ At(json_str, SkipWs(json_str, k + 1)) = APOSTROPHE
                        /\ \E j \in SkipWs(json_str, k + 1) + 1 .. Len(json_str) :
                               json_str[j] = APOSTROPHE } },
          1)

\* re.sub(lead + r'\s*\bWord\b', lead + ' ' + repl, json_str), lines 472-480
RewriteLiteral(json_str, lead, word, repl) ==
    ReSub(json_str,
          { [start |-> i, stop |-> SkipWs(json_str, i + 1),
             repl |-> <<lead, " ", repl>>] :
              i \in { k \in 1 .. Len(json_str) :
                        /\ json_str[k] = lead
                        /\ At(json_str, SkipWs(json_str, k + 1)) = word } },
          1)

RewriteLiterals(json_str) ==
    LET s1 == RewriteLiteral(json_str, ":", "True", "true")
        s2 == RewriteLiteral(s1, ":", "False", "false")
        s3 == RewriteLiteral(s2, ":", "None", "null")
        s4 == RewriteLiteral(s3, ",", "True", "true")
        s5 == RewriteLiteral(s4, ",", "False", "false")
        s6 == RewriteLiteral(s5, "[", "True", "true")
    IN RewriteLiteral(s6, "[", "False", "false")

_fix_json_format(json_str) ==
    RewriteLiterals(
        QuoteValues(
            QuoteKeys(
                EscapeControlInStrings(
                    StripTrailingCommas(_fix_json_comma_errors(json_str))))))

(***************************************************************************)
(* json.loads                                                              *)
(*                                                                         *)
(* A JSON value is [t, s, n, items]: t its type, s the lexemes of a string *)
(* (or of a member's key), n the number, items the elements of an array or *)
(* the members of an object (a member holds its value as its one item).    *)
(***************************************************************************)
JVal(t, s, n, items) == [t |-> t, s |-> s, n |-> n, items |-> items]
JNull == JVal("null", <<>>, 0, <<>>)
JMissing == JVal("missing", <<>>, 0, <<>>)

JsonFail == [ok |-> FALSE, val |-> JNull, pos |-> 0]
JsonOk(val, pos) == [ok |-> TRUE, val |-> val, pos |-> pos]

\* the characters a backslash may escape, and what they stand for
JsonEscapes == [c \in {QUOTE, BACKSLASH, "n"} |-> IF c = "n" THEN "\n" ELSE c]

\* the string whose opening quote is just before position i
RECURSIVE ParseStringBody(_, _, _)
ParseStringBody(text, i, acc) ==
    LET c == At(text, i)
    IN IF c = "" \/ c = "\n" THEN JsonFail
       ELSE IF c = QUOTE THEN JsonOk(JVal("string", acc, 0, <<>>), i + 1)
       ELSE IF c = BACKSLASH
       THEN IF At(text, i + 1) \in DOMAIN JsonEscapes
            THEN ParseStringBody(text, i + 2,
                                 Append(acc, JsonEscapes[At(text, i + 1)]))
            ELSE JsonFail
       ELSE ParseStringBody(text, i + 1, Append(acc, c))

RECURSIVE ParseValue(_, _)
RECURSIVE ParseMembers(_, _, _)
RECURSIVE ParseElements(_, _, _)

ParseValue(text, i0) ==
    LET i == SkipWs(text, i0)
        c == At(text, i)
    IN IF c = "{"
       THEN IF At(text, SkipWs(text, i + 1)) = "}"
            THEN JsonOk(JVal("object", <<>>, 0, <<>>), SkipWs(text, i + 1) + 1)
            ELSE ParseMembers(text, i + 1, <<>>)
       ELSE IF c = "["
       THEN IF At(text, SkipWs(text, i + 1)) = "]"
            THEN JsonOk(JVal("array", <<>>, 0, <<>>), SkipWs(text, i + 1) + 1)
            ELSE ParseElements(text, i + 1, <<>>)
       ELSE IF c = QUOTE THEN ParseStringBody(text, i + 1, <<>>)
       ELSE IF c = "-" /\ IsDecimal(At(text, i + 1))
       THEN JsonOk(JVal("number", <<>>, 0 - IntOf(At(text, i + 1)), <<>>), i + 2)
       ELSE IF IsDecimal(c) THEN JsonOk(JVal("number", <<>>, IntOf(c), <<>>), i + 1)
       ELSE IF c \in {"true", "false", "null"}
       THEN JsonOk(JVal(c, <<>>, IF c = "true" THEN 1 ELSE 0, <<>>), i + 1)
       ELSE JsonFail

\* "key": value pairs up to the closing brace; a key is expected at i
ParseMembers(text, i, acc) ==
    LET j == SkipWs(text, i)
        key == IF At(text, j) = QUOTE THEN ParseStringBody(text, j + 1, <<>>)
               ELSE JsonFail
        colon == SkipWs(text, key.pos)
        v == IF key.ok /\ At(text, colon) = ":" THEN ParseValue(text, colon + 1)
             ELSE JsonFail
        e == SkipWs(text, v.pos)
        members == Append(acc, JVal("member", key.val.s, 0, <<v.val>>))
    IN IF ~v.ok THEN JsonFail
       ELSE IF At(text, e) = "," THEN ParseMembers(text, e + 1, members)
       ELSE IF At(text, e) = "}" THEN JsonOk(JVal("object", <<>>, 0, members), e + 1)
       ELSE JsonFail

\* values up to the closing bracket; a value is expected at i
ParseElements(text, i, acc) ==
    LET v == ParseValue(text, i)
        e == SkipWs(text, v.pos)
        elements == Append(acc, v.val)
    IN IF ~v.ok THEN JsonFail
       ELSE IF At(text, e) = "," THEN ParseElements(text, e + 1, elements)
       ELSE IF At(text, e) = "]" THEN JsonOk(JVal("array", <<>>, 0, elements), e + 1)
       ELSE JsonFail

\* json.loads(text): ok = FALSE stands for json.JSONDecodeError
JsonEnd(text, v) ==
    IF v.ok /\ SkipWs(text, v.pos) > Len(text) THEN v ELSE JsonFail
json_loads(text) == JsonEnd(text, ParseValue(text, 1))

\* obj.get(key): the last member of that name
Get(obj, key) ==
    LET at == { k \in 1 .. Len(obj.items) : obj.items[k].s = key }
    IN IF at = {} THEN JMissing
       ELSE obj.items[CHOOSE k \in at : \A m \in at : m <= k].items[1]

\* bool(v)
Truthy(v) ==
    CASE v.t = "true" -> TRUE
      [] v.t \in {"false", "null", "missing"} -> FALSE
      [] v.t = "number" -> v.n # 0
      [] v.t = "string" -> v.s # <<>>
      [] OTHER -> v.items # <<>>

\* start_index <= idx < ... is defined on v: a number, or a bool (an int)
Comparable(v) == v.t \in {"number", "true", "false"}

\* `for x in v` raises TypeError
NotIterable(v) == v.t \in {"number", "true", "false", "null"}

\* what `for x in v` yields, for a v that can be iterated: the elements of
\* an array, the keys of an object, the characters of a string
Iterated(v) ==
    CASE v.t = "array" -> v.items
      [] v.t = "object" ->
             [k \in 1 .. Len(v.items) |-> JVal("string", v.items[k].s, 0, <<>>)]
      [] v.t = "string" ->
             [k \in 1 .. Len(v.s) |-> JVal("string", <<v.s[k]>>, 0, <<>>)]
      [] OTHER -> <<>>

(***************************************************************************)
(* _aggressive_json_fix and the last repair of attempts 2-4                *)
(***************************************************************************)
\* char in string.printable: every lexeme written here but U+00B2
Printable(char) == char # SUPERSCRIPT_TWO

\* one iteration of the while loop, lines 501-547
AggressiveStep(st, json_str, i) ==
    LET char == json_str[i]
    IN IF st.escape_next
       THEN [st EXCEPT !.result = Append(@, char), !.escape_next = FALSE]
       ELSE IF char = BACKSLASH
       THEN [st EXCEPT !.result = Append(@, char), !.escape_next = TRUE]
       ELSE IF char = QUOTE
       THEN [st EXCEPT !.result = Append(@, char), !.in_string = ~@]
       ELSE IF st.in_string
       THEN [st EXCEPT !.result = IF char \in DOMAIN ControlEscape
                                  THEN @ \o ControlEscape[char]
                                  ELSE Append(@, char)]
       ELSE IF Printable(char) \/ char \in Whitespace
       THEN [st EXCEPT !.result = Append(@, char)]
       ELSE st

RECURSIVE AggressiveLoop(_, _, _, _)
AggressiveLoop(st, json_str, lo, hi) ==
    IF lo > hi THEN st
    ELSE IF lo = hi THEN AggressiveStep(st, json_str, lo)
    ELSE LET mid == (lo + hi) \div 2
             first == AggressiveLoop(st, json_str, lo, mid)
         IN IF first.escape_next \in BOOLEAN
            THEN AggressiveLoop(first, json_str, mid + 1, hi) ELSE first

_aggressive_json_fix(json_str) ==
    AggressiveLoop([result |-> <<>>, in_string |-> FALSE, escape_next |-> FALSE],
                   json_str, 1, Len(json_str)).result

\* re.sub(r'(\w+)"\s*(\w+)', r'\1", "\2', fixed_json)
SplitWords(fixed_json) ==
    ReSub(fixed_json,
          { [start |-> i, stop |-> SkipWs(fixed_json, i + 2),
             repl |-> <<fixed_json[i], QUOTE, ",", " ", QUOTE,
                        fixed_json[SkipWs(fixed_json, i + 2)]>>] :
              i \in { k \in 1 .. Len(fixed_json) :
                        /\ IsWord(fixed_json[k]) /\ At(fixed_json, k + 1) = QUOTE
                        /\ At(fixed_json, SkipWs(fixed_json, k + 2)) # ""
                        /\ IsWord(At(fixed_json, SkipWs(fixed_json, k + 2))) } },
          1)

\* fixed_json of attempt 0, of attempt 1, and of attempts 2, 3 and 4
RepairAttempts(json_str) ==
    <<_fix_json_format(json_str),
      _fix_json_format(_aggressive_json_fix(json_str)),
      SplitWords(_fix_json_format(_aggressive_json_fix(json_str)))>>

(***************************************************************************)
(* _extract_json_safely                                                    *)
(***************************************************************************)
\* method 1, lines 564-586: one iteration of the for loop; json_end is the
\* position of the brace that closes the first opening brace, strings
\* skipped, and stays 0 until it is met (the loop breaks there)
BraceStep_EveryBrace(st, text, i) ==
    LET char == text[i]
    IN IF st.json_end > 0 THEN st
       ELSE IF char = "{" THEN [st EXCEPT !.brace_count = @ + 1]
       ELSE IF char = "}"
       THEN [st EXCEPT !.brace_count = @ - 1,
                       !.json_end = IF st.brace_count - 1 = 0 THEN i ELSE 0]
       ELSE st
BraceStep(st, text, i) ==
    LET char == text[i]
    IN IF st.json_end > 0 THEN st
       ELSE IF st.escape_next THEN [st EXCEPT !.escape_next = FALSE]
       ELSE IF char = BACKSLASH THEN [st EXCEPT !.escape_next = TRUE]
       ELSE IF char = QUOTE THEN [st EXCEPT !.in_string = ~@]
       ELSE IF ~st.in_string /\ char = "{"
       THEN [st EXCEPT !.brace_count = @ + 1]
       ELSE IF ~st.in_string /\ char = "}"
       THEN [st EXCEPT !.brace_count = @ - 1,
                       !.json_end = IF st.brace_count - 1 = 0 THEN i ELSE 0]
       ELSE st

RECURSIVE BraceLoop(_, _, _, _)
BraceLoop(st, text, lo, hi) ==
    IF lo > hi THEN st
    ELSE IF lo = hi THEN BraceStep(st, text, lo)
    ELSE LET mid == (lo + hi) \div 2
             first == BraceLoop(st, text, lo, mid)
         IN IF first.json_end > 0 THEN first
            ELSE BraceLoop(first, text, mid + 1, hi)

BraceScan(text, json_start) ==
    BraceLoop([brace_count |-> 0, in_string |-> FALSE, escape_next |-> FALSE,
               json_end |-> 0], text, json_start, Len(text)).json_end

\* method 2, lines 593-614: one iteration of the loop that collects the
\* positions of the braces outside strings
PositionStep(st, text, i) ==
    LET char == text[i]
    IN IF st.escape_next THEN [st EXCEPT !.escape_next = FALSE]
       ELSE IF char = BACKSLASH THEN [st EXCEPT !.escape_next = TRUE]
       ELSE IF char = QUOTE THEN [st EXCEPT !.in_string = ~@]
       ELSE IF ~st.in_string /\ char \in {"{", "}"}
       THEN [st EXCEPT !.brace_positions = Append(@, i)]
       ELSE st

RECURSIVE PositionLoop(_, _, _, _)
PositionLoop(st, text, lo, hi) ==
    IF lo > hi THEN st
    ELSE IF lo = hi THEN PositionStep(st, text, lo)
    ELSE LET mid == (lo + hi) \div 2
             first == PositionLoop(st, text, lo, mid)
         IN IF first.escape_next \in BOOLEAN
            THEN PositionLoop(first, text, mid + 1, hi) ELSE first

BracePositions(text) ==
    PositionLoop([brace_positions |-> <<>>, in_string |-> FALSE,
                  escape_next |-> FALSE], text, 1, Len(text)).brace_positions

\* the candidate text parses once repaired
Validates(candidate) == json_loads(_fix_json_format(candidate)).ok

\* method 2, lines 617-635: from each opening brace in turn, every closing
\* brace that brings the count back to 0 ends a candidate
BalancedCandidates(text) ==
    LET bp == BracePositions(text)
        count(a, b) ==
            Cardinality({ k \in a .. b : text[bp[k]] = "{" })
                - Cardinality({ k \in a .. b : text[bp[k]] = "}" })
    IN { <<bp[a], bp[b]>> : <<a, b>> \in
           { ab \in (1 .. Len(bp)) \X (1 .. Len(bp)) :
               /\ ab[1] <= ab[2] /\ text[bp[ab[1]]] = "{"
               /\ text[bp[ab[2]]] = "}" /\ count(ab[1], ab[2]) = 0 } }

\* method 3, lines 639-640: where the match of
\* \{[^{}]*(?:\{[^{}]*\}[^{}]*)*\} that starts at the opening brace p ends
\* (0 when none does): at the closing brace before which the braces after p
\* are pairs of an opening and a closing one
FlatMatchEnd(text, p) ==
    LET between(e) == { b \in p + 1 .. e - 1 : text[b] \in {"{", "}"} }
        rank(e, b) == Cardinality({ c \in between(e) : c <= b })
        ends == { e \in p + 1 .. Len(text) :
                    /\ text[e] = "}"
                    /\ Cardinality(between(e)) % 2 = 0
                    /\ \A b \in between(e) :
                           text[b] = IF rank(e, b) % 2 = 1 THEN "{" ELSE "}" }
    IN IF text[p] # "{" \/ ends = {} THEN 0 ELSE CHOOSE e \in ends : TRUE

\* re.findall(json_pattern, text): matches from left to right, not overlapping
RECURSIVE FlatMatches(_, _)
FlatMatches(text, i) ==
    LET starts == { p \in i .. Len(text) : FlatMatchEnd(text, p) > 0 }
        p == CHOOSE x \in starts : \A y \in starts : x <= y
    IN IF starts = {} THEN <<>>
       ELSE <<SubSeq(text, p, FlatMatchEnd(text, p))>>
                \o FlatMatches(text, FlatMatchEnd(text, p) + 1)

\* len(candidate), in characters
CharLen(x) == IF x = SUPERSCRIPT_TWO THEN 1 ELSE Len(x)
RECURSIVE CharsIn(_, _, _)
CharsIn(text, lo, hi) ==
    IF lo > hi THEN 0
    ELSE IF lo = hi THEN CharLen(text[lo])
    ELSE CharsIn(text, lo, (lo + hi) \div 2) + CharsIn(text, (lo + hi) \div 2 + 1, hi)
TextLen(text) == CharsIn(text, 1, Len(text))

\* [found, json]: found = FALSE stands for None
\* method 3: the longest flat match, the first of the longest
Longest(matches) ==
    CHOOSE k \in 1 .. Len(matches) :
        /\ \A m \in 1 .. Len(matches) :
               TextLen(matches[m]) <= TextLen(matches[k])
        /\ \A m \in 1 .. k - 1 : TextLen(matches[m]) < TextLen(matches[k])
LongestMatch(matches) ==
    IF Len(matches) > 0 /\ Validates(matches[Longest(matches)])
    THEN [found |-> TRUE, json |-> matches[Longest(matches)]]
    ELSE [found |-> FALSE, json |-> <<>>]
\* method 2: the first balanced candidate that validates
FirstCandidate(valid2) ==
    CHOOSE c \in valid2 : \A d \in valid2 :
        c[1] < d[1] \/ (c[1] = d[1] /\ c[2] <= d[2])
FirstBalanced(text, valid2) ==
    IF valid2 # {}
    THEN [found |-> TRUE,
          json |-> SubSeq(text, FirstCandidate(valid2)[1],
                          FirstCandidate(valid2)[2])]
    ELSE LongestMatch(FlatMatches(text, 1))
\* method 1: the scan from the first brace
FirstScan(text, json_start, json_end) ==
    IF json_end > 0
    THEN [found |-> TRUE, json |-> SubSeq(text, json_start, json_end)]
    ELSE FirstBalanced(text, { c \in BalancedCandidates(text) :
                                 Validates(SubSeq(text, c[1], c[2])) })
BraceScanFrom(text, json_start) ==
    FirstScan(text, json_start,
              IF json_start > 0 THEN BraceScan(text, json_start) ELSE 0)
_extract_json_safely(text) == BraceScanFrom(text, Find(text, "{"))

(***************************************************************************)
(* The validity filter on the response text                                *)
(***************************************************************************)
Returned(value) == [raised |-> FALSE, value |-> value]
Raised == [raised |-> TRUE, value |-> <<>>]

\* lines 680-685: item.get on something that is no dict, or the range test
\* on an index that is no number, raises
ValidItemRaises(item) ==
    IF item.t # "object" THEN TRUE
    ELSE /\ Truthy(Get(item, <<"is_valid">>))
         /\ Get(item, <<"index">>).t \notin {"null", "missing"}
         /\ ~Comparable(Get(item, <<"index">>))

\* lines 678-685 on the loaded result
LoadedValidIndices(result, n, start_index) ==
    LET va == Get(result, <<"valid_actions">>)
        items == Iterated(va)
        accepted == SelectSeq(items, LAMBDA item :
                        /\ Truthy(Get(item, <<"is_valid">>))
                        /\ Comparable(Get(item, <<"index">>))
                        /\ InRange(Get(item, <<"index">>).n, start_index, n))
    IN IF va.t = "missing" THEN Returned(<<>>)
       ELSE IF NotIterable(va) \/ \E k \in 1 .. Len(items) : ValidItemRaises(items[k])
       THEN Raised
       ELSE Returned([k \in 1 .. Len(accepted) |-> Get(accepted[k], <<"index">>).n])

\* re.IGNORECASE on (true|false)
TrueWords == {"true", "True", "TRUE"}
FalseWords == {"false", "False", "FALSE"}

\* where the value stands when `"key":\s*` (loose: `"key"\s*:\s*`) starts at
\* p; 0 when it does not start there
KeyAt(text, p, key, loose) ==
    IF At(text, p) = QUOTE /\ At(text, p + 1) = key /\ At(text, p + 2) = QUOTE
    THEN LET c == IF loose THEN SkipWs(text, p + 3) ELSE p + 3
         IN IF At(text, c) = ":" THEN SkipWs(text, c + 1) ELSE 0
    ELSE 0

\* positions 1..Len(text) in order
Positions(text) == [i \in 1 .. Len(text) |-> i]

\* the match of r'"index":\s*(\d+)[^}]*"is_valid":\s*(true|false)' that
\* starts at p: [^}]* is greedy, so the verdict taken is the last one before
\* the next }
NoVerdict == [ok |-> FALSE, idx_str |-> "", is_valid |-> "", stop |-> 0]
Verdict(text, d, v) ==
    [ok |-> TRUE, idx_str |-> text[d], is_valid |-> text[v], stop |-> v]
FirstBrace(text, d) ==
    LET braces == { j \in d + 1 .. Len(text) : text[j] = "}" }
    IN IF braces = {} THEN Len(text) + 1
       ELSE CHOOSE j \in braces : \A m \in braces : j <= m
VerdictFlags(text, d, stop) ==
    { q \in d + 1 .. stop - 1 :
        /\ KeyAt(text, q, "is_valid", FALSE) > 0
        /\ At(text, KeyAt(text, q, "is_valid", FALSE))
               \in TrueWords \cup FalseWords }
LastFlag(flags) == CHOOSE q \in flags : \A m \in flags : m <= q
VerdictWith(text, d, flags) ==
    IF d > 0 /\ IsDecimal(At(text, d)) /\ flags # {}
    THEN Verdict(text, d, KeyAt(text, LastFlag(flags), "is_valid", FALSE))
    ELSE NoVerdict
VerdictFrom(text, d) ==
    VerdictWith(text, d, VerdictFlags(text, d, FirstBrace(text, d)))
VerdictAt(text, p) == VerdictFrom(text, KeyAt(text, p, "index", FALSE))

\* re.findall of that pattern (re.IGNORECASE): the matches from left to
\* right, not overlapping, from position i on
RECURSIVE VerdictMatches(_, _)
VerdictMatchesAfter(text, m) ==
    <<[idx_str |-> m.idx_str, is_valid |-> m.is_valid]>>
        \o VerdictMatches(text, m.stop + 1)
VerdictMatchesAmong(text, starts) ==
    IF starts = {} THEN <<>>
    ELSE VerdictMatchesAfter(
             text, VerdictAt(text, CHOOSE x \in starts : \A y \in starts : x <= y))
VerdictMatches(text, i) ==
    VerdictMatchesAmong(text, { p \in i .. Len(text) : VerdictAt(text, p).ok })

\* re.findall(r'"index"\s*:\s*(\d+)', ...)
IndexMatches(text) ==
    LET at == SelectSeq(Positions(text), LAMBDA p :
                  /\ KeyAt(text, p, "index", TRUE) > 0
                  /\ IsDecimal(At(text, KeyAt(text, p, "index", TRUE))))
    IN [k \in 1 .. Len(at) |-> text[KeyAt(text, at[k], "index", TRUE)]]

\* re.findall(r'"is_valid"\s*:\s*(true|false)', ..., re.IGNORECASE)
FlagMatches(text) ==
    LET at == SelectSeq(Positions(text), LAMBDA p :
                  /\ KeyAt(text, p, "is_valid", TRUE) > 0
                  /\ At(text, KeyAt(text, p, "is_valid", TRUE))
                         \in TrueWords \cup FalseWords)
    IN [k \in 1 .. Len(at) |-> text[KeyAt(text, at[k], "is_valid", TRUE)]]

\* lines 753-757 and 767-771: the in-range indices of the pairs marked true
PairsValidIndices(pairs, n, start_index) ==
    LET kept == SelectSeq(pairs, LAMBDA m :
                    /\ m.is_valid \in TrueWords
                    /\ InRange(IntOf(m.idx_str), start_index, n))
    IN [k \in 1 .. Len(kept) |-> IntOf(kept[k].idx_str)]

\* line 777: the conservative default, every row of the batch
AllIndices_Nothing(start_index, n) == <<>>
AllIndices(start_index, n) == RangeList(start_index, n)

\* lines 762-765: the indices and the flags found separately, paired by rank
PairedByRank(indices, valid_flags) ==
    IF Len(indices) = Len(valid_flags)
    THEN [k \in 1 .. Len(indices) |->
             [idx_str |-> indices[k], is_valid |-> valid_flags[k]]]
    ELSE <<>>
FirstNonEmpty(method1, method2, default) ==
    IF Len(method1) > 0 THEN Returned(method1)
    ELSE IF Len(method2) > 0 THEN Returned(method2)
    ELSE Returned(default)
_extract_indices_with_regex_text(ai_text, n, start_index) ==
    FirstNonEmpty(
        PairsValidIndices(VerdictMatches(ai_text, 1), n, start_index),
        PairsValidIndices(PairedByRank(IndexMatches(ai_text), FlagMatches(ai_text)),
                          n, start_index),
        AllIndices(start_index, n))

\* lines 697-726: the attempts from k on; a text that loads ends the loop
RECURSIVE ValidIndicesAttempts(_, _, _, _)
ValidIndicesAttempt(fixed, k, loaded, n, start_index) ==
    IF ~loaded.ok THEN ValidIndicesAttempts(fixed, k + 1, n, start_index)
    ELSE LoadedValidIndices(loaded.val, n, start_index)
ValidIndicesAttempts(fixed, k, n, start_index) ==
    IF k > Len(fixed) THEN Raised
    ELSE ValidIndicesAttempt(fixed, k, json_loads(fixed[k]), n, start_index)

\* lines 664-734: what the JSON path makes of the text; Raised, or an empty
\* list, sends the caller on to the regex method
RepairedValidIndices(extracted, n, start_index) ==
    IF extracted.found
    THEN ValidIndicesAttempts(RepairAttempts(extracted.json), 1, n, start_index)
    ELSE Raised
FirstValidIndices(ai_text, loaded, n, start_index) ==
    IF loaded.ok THEN LoadedValidIndices(loaded.val, n, start_index)
    ELSE RepairedValidIndices(_extract_json_safely(ai_text), n, start_index)
ValidIndicesBetween(ai_text, json_start, json_end, n, start_index) ==
    IF ~(json_start > 0 /\ json_end > json_start) THEN Raised
    ELSE FirstValidIndices(
             ai_text,
             json_loads(_fix_json_format(SubSeq(ai_text, json_start, json_end))),
             n, start_index)
ValidIndicesOrRegex(got, ai_text, n, start_index) ==
    IF ~got.raised /\ Len(got.value) > 0 THEN got
    ELSE _extract_indices_with_regex_text(ai_text, n, start_index)
_parse_valid_action_indices_text(ai_text, n, start_index) ==
    ValidIndicesOrRegex(
        ValidIndicesBetween(ai_text, Find(ai_text, "{"), RFind(ai_text, "}"),
                            n, start_index),
        ai_text, n, start_index)

(***************************************************************************)
(* The segmentation parser on the response text                            *)
(***************************************************************************)
\* lines 986-998 (and 1024-1032) on the loaded result; Raised stands for the
\* TypeError or AttributeError of a value that is not of the expected shape
SegmentInfoRaises(segment_info) ==
    IF segment_info.t # "object" THEN TRUE
    ELSE LET behavior_indices == Get(segment_info, <<"behavior_indices">>)
             items == Iterated(behavior_indices)
         IN \/ NotIterable(behavior_indices)
            \/ \E k \in 1 .. Len(items) : ~Comparable(items[k])

LoadedSegments(result, batch_actions, start_index) ==
    LET infos == Get(result, <<"intent_segments">>)
        items == Iterated(infos)
        numbers(k) == LET b == Iterated(Get(items[k], <<"behavior_indices">>))
                      IN [j \in 1 .. Len(b) |-> b[j].n]
        per == [k \in 1 .. Len(items) |->
                   SegmentActions(batch_actions,
                       SegmentValidIndices(numbers(k), start_index,
                                           Len(batch_actions)),
                       start_index)]
    IN IF infos.t = "missing" THEN Returned(<<>>)
       ELSE IF NotIterable(infos)
                 \/ \E k \in 1 .. Len(items) : SegmentInfoRaises(items[k])
       THEN Raised
       ELSE Returned(SelectSeq(per, LAMBDA seg : Len(seg) > 0))

\* the match of r'"behavior_indices":\s*\[([^\]]+)\]' (loose: with \s*
\* before the colon too) that starts at p: from, to bound the group
ArrayAt(text, p, loose) ==
    LET d == KeyAt(text, p, "behavior_indices", loose)
        closes == { j \in d + 1 .. Len(text) : text[j] = "]" }
        close == CHOOSE j \in closes : \A m \in closes : j <= m
    IN IF d > 0 /\ At(text, d) = "[" /\ closes # {} /\ close > d + 1
       THEN [ok |-> TRUE, from |-> d + 1, to |-> close - 1]
       ELSE [ok |-> FALSE, from |-> 0, to |-> 0]

\* re.findall of that pattern: the groups from left to right, from i on
RECURSIVE ArrayMatches(_, _, _)
ArrayMatchesAfter(text, m, loose) ==
    <<SubSeq(text, m.from, m.to)>> \o ArrayMatches(text, m.to + 2, loose)
ArrayMatchesAmong(text, starts, loose) ==
    IF starts = {} THEN <<>>
    ELSE ArrayMatchesAfter(
             text,
             ArrayAt(text, CHOOSE x \in starts : \A y \in starts : x <= y, loose),
             loose)
ArrayMatches(text, i, loose) ==
    ArrayMatchesAmong(text, { p \in i .. Len(text) : ArrayAt(text, p, loose).ok },
                      loose)

\* match.split(',')
RECURSIVE Split(_)
Split(match) ==
    IF Find(match, ",") = 0 THEN <<match>>
    ELSE <<SubSeq(match, 1, Find(match, ",") - 1)>>
             \o Split(SubSeq(match, Find(match, ",") + 1, Len(match)))

\* line 1057: the pieces x of the split with x.strip().isdigit(), stripped
DigitPieces(match) ==
    LET stripped == [k \in 1 .. Len(Split(match)) |-> Strip(Split(match)[k])]
        kept == SelectSeq(stripped, LAMBDA x : Len(x) = 1 /\ IsDigitStr(x[1]))
    IN [k \in 1 .. Len(kept) |-> kept[k][1]]

\* re.findall(r'\d+', match), line 1090
DecimalRuns(match) == SelectSeq(match, IsDecimal)

\* the rows of the in-range indices among the numerals given
NumeralSegment(numerals, batch_actions, start_index) ==
    SegmentActions(batch_actions,
        SegmentValidIndices([k \in 1 .. Len(numerals) |-> IntOf(numerals[k])],
                            start_index, Len(batch_actions)),
        start_index)

\* _extract_segments_with_regex, lines 1070-1103
NonEmptySegments(per) == SelectSeq(per, LAMBDA seg : Len(seg) > 0)
RegexSegments(matches, batch_actions, start_index) ==
    NonEmptySegments(
        [k \in 1 .. Len(matches) |->
            NumeralSegment(DecimalRuns(matches[k]), batch_actions, start_index)])
OrWholeBatch(segments, batch_actions) ==
    IF Len(segments) > 0 THEN segments ELSE <<batch_actions>>
_extract_segments_with_regex_text(ai_text, batch_actions, start_index) ==
    OrWholeBatch(RegexSegments(ArrayMatches(ai_text, 1, TRUE), batch_actions,
                               start_index),
                 batch_actions)

\* lines 1047-1068, outside every try: int() of a piece that isdigit()
\* accepts but that is no decimal number raises ValueError
InlinePieces(matches) == [k \in 1 .. Len(matches) |-> DigitPieces(matches[k])]
InlineOrRegex(segments, ai_text, batch_actions, start_index) ==
    IF Len(segments) > 0 THEN Returned(segments)
    ELSE Returned(_extract_segments_with_regex_text(ai_text, batch_actions,
                                                    start_index))
InlineFromPieces(pieces, ai_text, batch_actions, start_index) ==
    IF \E k \in 1 .. Len(pieces) :
           \E j \in 1 .. Len(pieces[k]) : ~IsDecimal(pieces[k][j])
    THEN Raised
    ELSE InlineOrRegex(
             NonEmptySegments(
                 [k \in 1 .. Len(pieces) |->
                     NumeralSegment(pieces[k], batch_actions, start_index)]),
             ai_text, batch_actions, start_index)
InlineSegments(ai_text, batch_actions, start_index) ==
    InlineFromPieces(InlinePieces(ArrayMatches(ai_text, 1, FALSE)),
                     ai_text, batch_actions, start_index)

\* lines 1009-1040: the attempts from k on
\* how the JSON path ends: with segments, or on to one of the two regex blocks
Way(kind, value) == [kind |-> kind, value |-> value]
RECURSIVE SegmentsAttempts(_, _, _, _)
SegmentsAttemptGot(got) ==
    IF got.raised THEN Way("regex", <<>>)
    ELSE IF Len(got.value) > 0 THEN Way("segments", got.value)
    ELSE Way("inline", <<>>)
SegmentsAttempt(fixed, k, loaded, batch_actions, start_index) ==
    IF ~loaded.ok THEN SegmentsAttempts(fixed, k + 1, batch_actions, start_index)
    ELSE SegmentsAttemptGot(LoadedSegments(loaded.val, batch_actions, start_index))
SegmentsAttempts(fixed, k, batch_actions, start_index) ==
    IF k > Len(fixed) THEN Way("regex", <<>>)
    ELSE SegmentsAttempt(fixed, k, json_loads(fixed[k]), batch_actions,
                         start_index)

RepairedSegments(extracted, batch_actions, start_index) ==
    IF extracted.found
    THEN SegmentsAttempts(RepairAttempts(extracted.json), 1, batch_actions,
                          start_index)
    ELSE Way("inline", <<>>)
FirstSegmentsGot(got) ==
    IF ~got.raised /\ Len(got.value) > 0 THEN Way("segments", got.value)
    ELSE Way("inline", <<>>)
FirstSegments(ai_text, loaded, batch_actions, start_index) ==
    IF loaded.ok
    THEN FirstSegmentsGot(LoadedSegments(loaded.val, batch_actions, start_index))
    ELSE RepairedSegments(_extract_json_safely(ai_text), batch_actions,
                          start_index)
SegmentsBetween(ai_text, json_start, json_end, batch_actions, start_index) ==
    IF ~(json_start > 0 /\ json_end > json_start) THEN Way("inline", <<>>)
    ELSE FirstSegments(
             ai_text,
             json_loads(_fix_json_format(SubSeq(ai_text, json_start, json_end))),
             batch_actions, start_index)
SegmentsOrRegex(way, ai_text, batch_actions, start_index) ==
    IF way.kind = "segments" THEN Returned(way.value)
    ELSE IF way.kind = "regex"
    THEN Returned(_extract_segments_with_regex_text(ai_text, batch_actions,
                                                    start_index))
    ELSE InlineSegments(ai_text, batch_actions, start_index)
_parse_intent_segments_text(ai_text, batch_actions, start_index) ==
    SegmentsOrRegex(
        SegmentsBetween(ai_text, Find(ai_text, "{"), RFind(ai_text, "}"),
                        batch_actions, start_index),
        ai_text, batch_actions, start_index)

(***************************************************************************)
(* The parse step of analyze_intent (lines 1208-1230) on the response text *)
(***************************************************************************)
Member(key, value) == JVal("member", <<key>>, 0, <<value>>)

\* {'intent': result_text, 'confidence_score': 0.5, 'raw_response': result_text}
RawResult(result_text) ==
    JVal("object", <<>>, 0,
         <<Member("intent", JVal("string", result_text, 0, <<>>)),
           Member("confidence_score", JVal("number", <<"0.5">>, 0, <<>>)),
           Member("raw_response", JVal("string", result_text, 0, <<>>))>>)

ResultAgain(again, result_text) ==
    IF again.ok THEN Returned(again.val) ELSE Returned(RawResult(result_text))
ResultExtracted(extracted, result_text) ==
    IF extracted.found
    THEN ResultAgain(json_loads(_fix_json_format(extracted.json)), result_text)
    ELSE Returned(RawResult(result_text))
ResultLoaded(loaded, result_text) ==
    IF loaded.ok THEN Returned(loaded.val)
    ELSE ResultExtracted(_extract_json_safely(result_text), result_text)
ResultBetween(result_text, json_start, json_end) ==
    IF ~(json_start > 0 /\ json_end > json_start)
    THEN Returned(RawResult(result_text))
    ELSE ResultLoaded(
             json_loads(_fix_json_format(SubSeq(result_text, json_start,
                                                json_end))),
             result_text)
_parse_intent_result_text(result_text) ==
    ResultBetween(result_text, Find(result_text, "{"), RFind(result_text, "}"))

(***************************************************************************)
(* The responses given to the parsers                                      *)
(*                                                                         *)
(* A document is the answer the prompt asks for, written out as text; the  *)
(* responses are the documents, each document with one comma left out,     *)
(* each document cut short, and texts that are no document at all.         *)
(***************************************************************************)
MaxRows == 3        \* rows of the batch a response is parsed for
CutStride == 6      \* a document is cut short after every CutStride-th lexeme

Key(k) == <<QUOTE, k, QUOTE, ":", " ">>
Num(i) == IF i < 0 THEN <<"-", Numeral(0 - i)>> ELSE <<Numeral(i)>>
Str(s) == <<QUOTE>> \o s \o <<QUOTE>>
Bool(b) == IF b THEN <<"true">> ELSE <<"false">>

\* parts joined by ", "
Join(parts) ==
    Concat([k \in 1 .. Len(parts) |->
               IF k = 1 THEN parts[k] ELSE <<",", " ">> \o parts[k]])
Obj(members) == <<"{">> \o Join(members) \o <<"}">>
Arr(elements) == <<"[">> \o Join(elements) \o <<"]">>

\* indices a response may name: just below the batch and its first two rows
DocIndices(start_index) == {start_index - 1, start_index, start_index + 1}

\* the verdict on one row, lines 280-282 of the filter prompt; JSON does not
\* order the keys of an object, and the reason may be left out
VerdictItems(start_index) ==
    [index : DocIndices(start_index), is_valid : BOOLEAN, flag_first : BOOLEAN]

VerdictText(it) ==
    IF it.flag_first
    THEN Obj(<<Key("is_valid") \o Bool(it.is_valid), Key("index") \o Num(it.index)>>)
    ELSE Obj(<<Key("index") \o Num(it.index), Key("is_valid") \o Bool(it.is_valid),
               Key("reason") \o Str(<<"ok">>)>>)

\* the documents of one verdict and of two verdicts
FilterDocuments(start_index) ==
    { Obj(<<Key("valid_actions")
              \o Arr([k \in 1 .. Len(its) |-> VerdictText(its[k])])>>) :
          its \in { <<a>> : a \in VerdictItems(start_index) }
                  \cup (VerdictItems(start_index) \X VerdictItems(start_index)) }

\* one segment, lines 930-945 of the segmentation prompt: no index, one
\* index or two indices
SegmentLists(start_index) ==
    {<<>>} \cup { <<a>> : a \in DocIndices(start_index) }
           \cup (DocIndices(start_index) \X DocIndices(start_index))

SegmentText(k, behavior_indices) ==
    Obj(<<Key("segment_index") \o Num(k - 1),
          Key("behavior_indices")
              \o Arr([j \in 1 .. Len(behavior_indices) |-> Num(behavior_indices[j])])>>)

\* the documents of one segment and of two segments
SegmentDocuments(start_index) ==
    { Obj(<<Key("intent_segments")
              \o Arr([k \in 1 .. Len(ls) |-> SegmentText(k, ls[k])])>>) :
          ls \in { <<a>> : a \in SegmentLists(start_index) }
                 \cup (SegmentLists(start_index) \X SegmentLists(start_index)) }

\* the analysis of one segment, lines 1413-1420 of the analysis prompt
IntentTexts ==
    { <<"ok">>, <<"vip", ":", " ", "True">>, <<"a", ",", "}">>,
      <<"the", " ", APOSTROPHE, "x", APOSTROPHE, ":", " ", "y">> }

AnalysisDocuments ==
    { Obj(<<Key("intent") \o Str(i), Key("explored_feature") \o Str(f)>>) :
          <<i, f>> \in IntentTexts \X {<<"ok">>} }

\* a comma outside every string of a document; the documents hold no
\* backslash, so a position is inside a string after an odd number of quotes
OutsideStrings(doc, p) ==
    Cardinality({ q \in 1 .. p - 1 : doc[q] = QUOTE }) % 2 = 0

\* the commas between a value and the next key of the same object
KeyCommas(doc) ==
    { p \in 1 .. Len(doc) :
        /\ doc[p] = "," /\ OutsideStrings(doc, p)
        /\ At(doc, SkipWs(doc, p + 1)) = QUOTE }

\* the commas between two objects of an array
ItemCommas(doc) ==
    { p \in 1 .. Len(doc) :
        /\ doc[p] = "," /\ OutsideStrings(doc, p)
        /\ doc[p - 1] = "}" /\ At(doc, SkipWs(doc, p + 1)) = "{" }

WithoutLexeme(doc, p) == SubSeq(doc, 1, p - 1) \o SubSeq(doc, p + 1, Len(doc))

CutPoints(doc) == { j \in 1 .. Len(doc) - 1 : j % CutStride = 0 }

\* [text, origin] for a document and everything made from it
Variants(doc) ==
    { [text |-> doc, origin |-> [kind |-> "document", document |-> doc, at |-> 0]] }
    \cup { [text |-> WithoutLexeme(doc, p),
            origin |-> [kind |-> "key_comma", document |-> doc, at |-> p]] :
             p \in KeyCommas(doc) }
    \cup { [text |-> WithoutLexeme(doc, p),
            origin |-> [kind |-> "item_comma", document |-> doc, at |-> p]] :
             p \in ItemCommas(doc) }
    \cup { [text |-> SubSeq(doc, 1, j),
            origin |-> [kind |-> "truncated", document |-> doc, at |-> j]] :
             j \in CutPoints(doc) }

\* texts that are no document
OtherTexts ==
    { <<>>, <<"oops">>, <<"I", " ", "cannot", " ", "answer", " ", "that">>,
      <<"{">>, <<"}">>, <<"}", " ", "{">>, <<"{", "}">>, <<"{", " ", "oops", " ", "}">>,
      <<"[", "1", ",", " ", "2", "]">>,
      Obj(<<Key("other") \o <<"1">>>>),
      Obj(<<Key("valid_actions") \o <<"null">>>>),
      Obj(<<Key("valid_actions") \o Arr(<<Obj(<<Key("index") \o <<"0">>>>)>>)>>),
      Obj(<<Key("intent_segments") \o <<"null">>>>),
      Obj(<<Key("intent_segments") \o Arr(<<Obj(<<Key("segment_index") \o <<"0">>>>)>>)>>),
      Key("behavior_indices") \o Arr(<<<<SUPERSCRIPT_TWO>>>>),
      Key("behavior_indices") \o Arr(<<<<"0">>, <<"1">>>>),
      Key("index") \o <<"0", ",", " ">> \o Key("is_valid") \o <<"true">> }

Garbage ==
    { [text |-> t, origin |-> [kind |-> "other", document |-> t, at |-> 0]] :
          t \in OtherTexts }

Responses(p, start_index) ==
    Garbage \cup
    UNION { Variants(doc) :
              doc \in CASE p = "filter" -> FilterDocuments(start_index)
                        [] p = "segments" -> SegmentDocuments(start_index)
                        [] OTHER -> AnalysisDocuments }

\* the parser p applied to a text, for a batch of n rows
Parse(p, text, n, start_index) ==
    CASE p = "filter" -> _parse_valid_action_indices_text(text, n, start_index)
      [] p = "segments" ->
             _parse_intent_segments_text(text, DataFrame(n), start_index)
      [] OTHER -> _parse_intent_result_text(text)

(***************************************************************************)
(* SpecParse: one response text is given to one of the three parsers       *)
(***************************************************************************)
InitParse ==
    /\ parser \in {"filter", "segments", "analysis"}
    /\ parser_len \in {1, MaxRows}
    /\ parser_start \in {0, MAX_ACTIONS_PER_BATCH}
    /\ \E r \in Responses(parser, parser_start) :
           ai_response = r.text /\ response_origin = r.origin
    /\ parsed = <<>>
    /\ ppc = "received"
    /\ WindowIdle /\ BatchIdle /\ RetryIdle /\ UserIdle
    /\ AnalyzeIdle /\ PostPassIdle

\* _parse_valid_action_indices(ai_response, batch_actions, start_index)
ParseValidActionIndices ==
    /\ ppc = "received" /\ parser = "filter"
    /\ parsed' = _parse_valid_action_indices_text(ai_response, parser_len,
                                                   parser_start)
    /\ ppc' = "parsed"
    /\ UNCHANGED <<ai_response, response_origin, parser, parser_len, parser_start,
                   wvars, bvars, rvars, uvars>>
    /\ UNCHANGED <<avars, gvars>>

\* _parse_intent_segments(ai_response, batch_actions, start_index)
ParseIntentSegments ==
    /\ ppc = "received" /\ parser = "segments"
    /\ parsed' = _parse_intent_segments_text(ai_response, DataFrame(parser_len),
                                              parser_start)
    /\ ppc' = "parsed"
    /\ UNCHANGED <<ai_response, response_origin, parser, parser_len, parser_start,
                   wvars, bvars, rvars, uvars>>
    /\ UNCHANGED <<avars, gvars>>

\* the parse step of analyze_intent(user_context, actions, history)
ParseIntentResult ==
    /\ ppc = "received" /\ parser = "analysis"
    /\ parsed' = _parse_intent_result_text(ai_response)
    /\ ppc' = "parsed"
    /\ UNCHANGED <<ai_response, response_origin, parser, parser_len, parser_start,
                   wvars, bvars, rvars, uvars>>
    /\ UNCHANGED <<avars, gvars>>

NextParse == ParseValidActionIndices \/ ParseIntentSegments \/ ParseIntentResult

SpecParse == InitParse /\ [][NextParse]_vars

(***************************************************************************)
(* Claims on the response parsers (SpecParse)                              *)
(***************************************************************************)
Filtered == ppc = "parsed" /\ parser = "filter"
Segmented == ppc = "parsed" /\ parser = "segments"
Analysed == ppc = "parsed" /\ parser = "analysis"

BatchIndices == { parser_start + k : k \in 0 .. parser_len - 1 }

\* every "is_valid" key of the text is followed by false: no verdict of the
\* text accepts a row
NoPositiveVerdict(text) ==
    \A p \in 1 .. Len(text) :
        \/ text[p] # "is_valid"
        \/ /\ KeyAt(text, p - 1, "is_valid", TRUE) > 0
           /\ At(text, KeyAt(text, p - 1, "is_valid", TRUE)) \in FalseWords

\* C11: the validity filter never raises, and when the response text holds
\* no verdict that accepts a row (garbage, an empty text, a text without
\* braces, a document that only rejects) it returns exactly the indices
\* start_index .. start_index + n - 1 of the batch, in order.
C11_FilterFailsOpen ==
    Filtered =>
        /\ ~parsed.raised
        /\ NoPositiveVerdict(ai_response)
               => parsed.value = RangeList(parser_start, parser_len)

\* a garbage text with braces, which goes through every repair attempt, has
\* been answered with the whole second batch
C11_Witness ==
    /\ Filtered
    /\ ai_response = <<"{", " ", "oops", " ", "}">>
    /\ parser_len = MaxRows /\ parser_start = MAX_ACTIONS_PER_BATCH
    /\ parsed = Returned(RangeList(MAX_ACTIONS_PER_BATCH, MaxRows))

\* the text holds no "behavior_indices" array from which an index of the
\* batch can be read
NoUsableSegment(text) ==
    \A p \in 1 .. Len(text) :
        text[p] = "behavior_indices" =>
            \A q \in p + 1 .. Len(text) :
                IsDecimal(text[q]) => IntOf(text[q]) \notin BatchIndices

\* C12: the segmentation parser never raises, and when no segment can be
\* read from the response text it returns exactly one segment, which holds
\* all rows of the batch in order.
C12_SegmentationFailsOpen ==
    Segmented =>
        /\ ~parsed.raised
        /\ NoUsableSegment(ai_response) => parsed.value = <<DataFrame(parser_len)>>

\* the response holds, inside one object, the index idx and a verdict false
MarkedInvalid(text, idx) ==
    \E p, q \in 1 .. Len(text) :
        /\ KeyAt(text, p, "index", TRUE) > 0
        /\ idx >= 0 /\ At(text, KeyAt(text, p, "index", TRUE)) = Numeral(idx)
        /\ KeyAt(text, q, "is_valid", TRUE) > 0
        /\ At(text, KeyAt(text, q, "is_valid", TRUE)) \in FalseWords
        /\ \A b \in Min(p, q) .. Max(p, q) : text[b] \notin {"{", "}"}

\* C13: the validity filter drops no row silently: every row of the batch is
\* in the result unless the response marks it is_valid = false.
C13_NoRowDroppedWithoutVerdict ==
    (Filtered /\ ~parsed.raised) =>
        \A idx \in BatchIndices :
            \/ \E k \in 1 .. Len(parsed.value) : parsed.value[k] = idx
            \/ MarkedInvalid(ai_response, idx)

\* the top-level key each parser expects
ExpectedKey == [p \in {"filter", "segments", "analysis"} |->
                   CASE p = "filter" -> <<"valid_actions">>
                     [] p = "segments" -> <<"intent_segments">>
                     [] OTHER -> <<"intent">>]

\* what the parser's own extraction gives on json.loads(text), not repaired
DirectParse(p, text, n, start_index) ==
    CASE p = "filter" -> LoadedValidIndices(json_loads(text).val, n, start_index)
      [] p = "segments" ->
             LoadedSegments(json_loads(text).val, DataFrame(n), start_index)
      [] OTHER -> Returned(json_loads(text).val)

WellFormed(p, text) ==
    /\ json_loads(text).ok /\ json_loads(text).val.t = "object"
    /\ Get(json_loads(text).val, ExpectedKey[p]).t # "missing"

\* C14: on a response that is a valid JSON object with the expected key the
\* parser returns what a direct json.loads of the text gives (for the filter
\* and the segmentation: when that is not empty, the fail-open default being
\* returned otherwise); the repair passes change no value of the document,
\* the text of its strings included.
C14_WellFormedInputUnchanged ==
    (ppc = "parsed" /\ WellFormed(parser, ai_response)) =>
        LET direct == DirectParse(parser, ai_response, parser_len, parser_start)
        IN (~direct.raised /\ (parser = "analysis" \/ Len(direct.value) > 0))
               => parsed = direct

\* what a parse result says, order and repetition of the filter's indices
\* set aside
Logical(p, result) ==
    IF p = "filter" /\ ~result.raised
    THEN { result.value[k] : k \in 1 .. Len(result.value) }
    ELSE result

\* C15: a document with the comma between a value and the next key left out
\* is parsed to the same valid indices (filter) or the same segments
\* (segmentation) as the document itself.
C15_MissingCommaRecovered ==
    (ppc = "parsed" /\ parser \in {"filter", "segments"}
        /\ response_origin.kind = "key_comma") =>
        Logical(parser, parsed)
            = Logical(parser, Parse(parser, response_origin.document,
                                    parser_len, parser_start))

(***************************************************************************)
(* The model call sites and their retry loops                              *)
(*                                                                         *)
(* Four places call generate_content: llm_request of the single-call       *)
(* pipeline, and _ai_filter_batch, _ai_segment_batch and analyze_intent    *)
(* of the staged pipeline.  The model service is the environment: each     *)
(* call either returns a response or raises one of the exceptions below.   *)
(* An exception is its class and the text str(e) gives, character by       *)
(* character, because the staged pipeline decides on the text.             *)
(***************************************************************************)
\* max_retries: int = 3 of llm_request, _ai_filter_batch, _ai_segment_batch
max_retries == 3

CallSites == {"llm_request", "_ai_filter_batch", "_ai_segment_batch",
              "analyze_intent"}

\* try: from aiohttp.client_exceptions import ClientConnectorError
\* except ImportError: ClientConnectorError = Exception
ClientConnectorErrorBindings == {"ClientConnectorError", "Exception"}

\* the classes of the exceptions and all their base classes
Bases(class) ==
    CASE class = "ConnectionResetError" ->
           {"ConnectionResetError", "ConnectionError", "OSError", "Exception"}
      [] class = "ConnectionRefusedError" ->
           {"ConnectionRefusedError", "ConnectionError", "OSError", "Exception"}
      [] class = "gaierror" -> {"gaierror", "OSError", "Exception"}
      [] class = "TimeoutError" -> {"TimeoutError", "OSError", "Exception"}
      [] class = "DeadlineExceeded" ->
           {"DeadlineExceeded", "GoogleAPICallError", "Exception"}
      [] class = "RetryError" -> {"RetryError", "GoogleAPIError", "Exception"}
      [] class = "PermissionDenied" ->
           {"PermissionDenied", "GoogleAPICallError", "Exception"}
      [] class = "InvalidArgument" ->
           {"InvalidArgument", "GoogleAPICallError", "Exception"}
      [] class = "ValueError" -> {"ValueError", "Exception"}
      [] class = "AttributeError" -> {"AttributeError", "Exception"}
      [] OTHER -> {class}

isinstance(e, class) == class \in Bases(e.type)

\* str(e) of each exception
ConnectionResetText ==
    <<"[", "E", "r", "r", "n", "o", " ", "1", "0", "4", "]", " ", "C", "o",
      "n", "n", "e", "c", "t", "i", "o", "n", " ", "r", "e", "s", "e", "t",
      " ", "b", "y", " ", "p", "e", "e", "r">>
ConnectionRefusedText ==
    <<"[", "E", "r", "r", "n", "o", " ", "1", "1", "1", "]", " ", "C", "o",
      "n", "n", "e", "c", "t", "i", "o", "n", " ", "r", "e", "f", "u", "s",
      "e", "d">>
NameResolutionText ==
    <<"[", "E", "r", "r", "n", "o", " ", "-", "2", "]", " ", "N", "a", "m",
      "e", " ", "o", "r", " ", "s", "e", "r", "v", "i", "c", "e", " ", "n",
      "o", "t", " ", "k", "n", "o", "w", "n">>
TimedOutText ==
    <<"t", "i", "m", "e", "d", " ", "o", "u", "t">>
DeadlineExceededText ==
    <<"5", "0", "4", " ", "D", "e", "a", "d", "l", "i", "n", "e", " ", "E",
      "x", "c", "e", "e", "d", "e", "d">>
RetryTimeoutText ==
    <<"T", "i", "m", "e", "o", "u", "t", " ", "o", "f", " ", "6", "0", ".",
      "0", "s", " ", "e", "x", "c", "e", "e", "d", "e", "d">>
PermissionDeniedText ==
    <<"4", "0", "3", " ", "P", "e", "r", "m", "i", "s", "s", "i", "o", "n",
      " ", "d", "e", "n", "i", "e", "d">>
InvalidArgumentText ==
    <<"4", "0", "0", " ", "R", "e", "q", "u", "e", "s", "t", " ", "c", "o",
      "n", "t", "a", "i", "n", "s", " ", "a", "n", " ", "i", "n", "v", "a",
      "l", "i", "d", " ", "a", "r", "g", "u", "m", "e", "n", "t">>
ValidationText ==
    <<"1", " ", "v", "a", "l", "i", "d", "a", "t", "i", "o", "n", " ", "e",
      "r", "r", "o", "r", " ", "f", "o", "r", " ", "G", "e", "n", "e", "r",
      "a", "t", "e", "C", "o", "n", "t", "e", "n", "t", "R", "e", "s", "p",
      "o", "n", "s", "e">>

ConnectionReset == [type |-> "ConnectionResetError", str |-> ConnectionResetText]
ConnectionRefused ==
    [type |-> "ConnectionRefusedError", str |-> ConnectionRefusedText]
NameResolution == [type |-> "gaierror", str |-> NameResolutionText]
TimedOut == [type |-> "TimeoutError", str |-> TimedOutText]
DeadlineExceeded == [type |-> "DeadlineExceeded", str |-> DeadlineExceededText]
RetryTimeout == [type |-> "RetryError", str |-> RetryTimeoutText]
PermissionDenied == [type |-> "PermissionDenied", str |-> PermissionDeniedText]
InvalidArgument == [type |-> "InvalidArgument", str |-> InvalidArgumentText]
ValidationFailure == [type |-> "ValueError", str |-> ValidationText]

\* what a call of generate_content (with the parsing that shares its try
\* block) can raise
Errors == {ConnectionReset, ConnectionRefused, NameResolution, TimedOut,
           DeadlineExceeded, RetryTimeout, PermissionDenied, InvalidArgument,
           ValidationFailure}

\* the response of a call that did not raise
Response == [type |-> "response", str |-> <<>>]

UpperCase == <<"A", "B", "C", "D", "E", "F", "G", "H", "I", "J", "K", "L", "M",
               "N", "O", "P", "Q", "R", "S", "T", "U", "V", "W", "X", "Y", "Z">>
LowerCase == <<"a", "b", "c", "d", "e", "f", "g", "h", "i", "j", "k", "l", "m",
               "n", "o", "p", "q", "r", "s", "t", "u", "v", "w", "x", "y", "z">>

\* str.lower()
lower(s) ==
    [i \in DOMAIN s |->
        IF \E k \in DOMAIN UpperCase : UpperCase[k] = s[i]
        THEN LowerCase[CHOOSE k \in DOMAIN UpperCase : UpperCase[k] = s[i]]
        ELSE s[i]]

\* except (ClientConnectorError, ConnectionResetError, ConnectionError,
\*         OSError) as e:                                  (llm_request)
ExceptNetwork_Never(e, binding) == FALSE
ExceptNetwork(e, binding) ==
    \/ isinstance(e, binding)
    \/ isinstance(e, "ConnectionResetError")
    \/ isinstance(e, "ConnectionError")
    \/ isinstance(e, "OSError")

\* '504' in error_msg or 'Deadline' in error_msg
\*     or 'timeout' in error_msg.lower()      (_ai_filter_batch, _ai_segment_batch)
MentionsTimeout(error_msg) ==
    \/ HasSub(error_msg, <<"5", "0", "4">>)
    \/ HasSub(error_msg, <<"D", "e", "a", "d", "l", "i", "n", "e">>)
    \/ HasSub(lower(error_msg), <<"t", "i", "m", "e", "o", "u", "t">>)

\* wait_time = 2 ** attempt (llm_request); wait_time = (attempt + 1) * 2
\* (_ai_filter_batch, _ai_segment_batch)
wait_time(site, n) == IF site = "llm_request" THEN 2 ^ n ELSE (n + 1) * 2

Pending == [kind |-> "pending", value |-> <<>>]
ReturnOf(value) == [kind |-> "returned", value |-> value]

\* `raise` in an except clause of llm_request: the exception reaches the caller
Reraise_Swallowed(e) == [kind |-> "returned", value |-> [type |-> "None", str |-> <<>>]]
Reraise(e) == [kind |-> "raised", value |-> e]

\* what each call site returns for a call that did not raise: response.parsed,
\* the parsed indices, the parsed segments, the parsed result
Result(site) ==
    CASE site = "llm_request" -> [type |-> "response.parsed", str |-> <<>>]
      [] site = "_ai_filter_batch" -> [type |-> "valid_indices", str |-> <<>>]
      [] site = "_ai_segment_batch" -> [type |-> "segments", str |-> <<>>]
      [] OTHER -> [type |-> "result", str |-> <<>>]

\* what the staged call sites return in place of an exception: all the
\* indices of the batch, the batch as one segment, the error dictionary
Fallback_ErrorDictionary(site, e) == [type |-> "error_dict", str |-> e.str]
Fallback(site, e) ==
    CASE site = "_ai_filter_batch" -> [type |-> "all_indices", str |-> <<>>]
      [] site = "_ai_segment_batch" -> [type |-> "single_segment", str |-> <<>>]
      [] OTHER -> [type |-> "error_dict", str |-> e.str]

InitRetry ==
    /\ call_site \in CallSites
    /\ ClientConnectorError \in
           IF call_site = "llm_request" THEN ClientConnectorErrorBindings
           ELSE {"idle"}
    /\ attempt = 0
    /\ call_log = <<>>
    /\ sleeps = <<>>
    /\ call_outcome = Pending
    /\ rpc = "call"
    /\ WindowIdle /\ BatchIdle /\ ParseIdle /\ UserIdle
    /\ AnalyzeIdle /\ PostPassIdle

\* generate_content returns and the try block runs to its return statement
GenerateContentReturns ==
    /\ rpc = "call"
    /\ call_log' = Append(call_log, Response)
    /\ call_outcome' = ReturnOf(Result(call_site))
    /\ rpc' = "done"
    /\ UNCHANGED <<call_site, ClientConnectorError, attempt, sleeps,
                   wvars, bvars, pvars, uvars>>
    /\ UNCHANGED <<avars, gvars>>

\* the two except clauses of llm_request
LlmRequestExcept ==
    /\ rpc = "call" /\ call_site = "llm_request"
    /\ \E e \in Errors :
        /\ call_log' = Append(call_log, e)
        /\ IF ExceptNetwork(e, ClientConnectorError) /\ attempt < max_retries - 1
           THEN rpc' = "sleep" /\ call_outcome' = call_outcome
           ELSE rpc' = "done" /\ call_outcome' = Reraise(e)
    /\ UNCHANGED <<call_site, ClientConnectorError, attempt, sleeps,
                   wvars, bvars, pvars, uvars>>
    /\ UNCHANGED <<avars, gvars>>

\* the except clause of _ai_filter_batch and of _ai_segment_batch
BatchExcept ==
    /\ rpc = "call" /\ call_site \in {"_ai_filter_batch", "_ai_segment_batch"}
    /\ \E e \in Errors :
        /\ call_log' = Append(call_log, e)
        /\ IF MentionsTimeout(e.str) /\ attempt < max_retries - 1
           THEN rpc' = "sleep" /\ call_outcome' = call_outcome
           ELSE rpc' = "done" /\ call_outcome' = ReturnOf(Fallback(call_site, e))
    /\ UNCHANGED <<call_site, ClientConnectorError, attempt, sleeps,
                   wvars, bvars, pvars, uvars>>
    /\ UNCHANGED <<avars, gvars>>

\* the outer except clause of analyze_intent
AnalyzeIntentExcept ==
    /\ rpc = "call" /\ call_site = "analyze_intent"
    /\ \E e \in Errors :
        /\ call_log' = Append(call_log, e)
        /\ call_outcome' = ReturnOf(Fallback(call_site, e))
    /\ rpc' = "done"
    /\ UNCHANGED <<call_site, ClientConnectorError, attempt, sleeps,
                   wvars, bvars, pvars, uvars>>
    /\ UNCHANGED <<avars, gvars>>

\* asyncio.sleep(wait_time) / time.sleep(wait_time), then `continue`: the
\* next iteration of `for attempt in range(max_retries)`, or the statement
\* after the loop
Sleep ==
    /\ rpc = "sleep"
    /\ sleeps' = Append(sleeps, wait_time(call_site, attempt))
    /\ IF attempt + 1 < max_retries
       THEN attempt' = attempt + 1 /\ rpc' = "call"
                /\ call_outcome' = call_outcome
       ELSE /\ attempt' = attempt
            /\ rpc' = "done"
            /\ call_outcome' =
                   IF call_site = "llm_request"
                   THEN Reraise(call_log[Len(call_log)])
                   ELSE ReturnOf(Fallback(call_site, call_log[Len(call_log)]))
    /\ UNCHANGED <<call_site, ClientConnectorError, call_log,
                   wvars, bvars, pvars, uvars>>
    /\ UNCHANGED <<avars, gvars>>

NextRetry ==
    \/ GenerateContentReturns
    \/ LlmRequestExcept
    \/ BatchExcept
    \/ AnalyzeIntentExcept
    \/ Sleep

SpecRetry == InitRetry /\ [][NextRetry]_vars

(***************************************************************************)
(* Claims on the retry loops (SpecRetry)                                   *)
(***************************************************************************)
LlmRequest == call_site = "llm_request"

LastCall == call_log[Len(call_log)]

\* the failure classes of the retry policy: connection reset, connection
\* refused, DNS failure and other OS-level socket errors; timeouts and
\* deadlines
NetworkClass(e) == e \in {ConnectionReset, ConnectionRefused, NameResolution}
TimeoutClass(e) == e \in {TimedOut, DeadlineExceeded, RetryTimeout}
NonRetryable(e) == e \in {PermissionDenied, InvalidArgument, ValidationFailure}

\* C16: when the model call of llm_request fails twice with a connection
\* reset and then succeeds, llm_request goes on after each failure, waits
\* before each new attempt (1 s, then 2 s), and returns the parsed response
\* of the third call: exactly 3 calls, 2 retries.
C16_RetryThenSuccess ==
    LlmRequest =>
        /\ call_log \in {<<ConnectionReset>>, <<ConnectionReset, ConnectionReset>>}
               => /\ rpc \in {"sleep", "call"}
                  /\ call_outcome.kind = "pending"
                  /\ rpc = "call" => Len(sleeps) = Len(call_log)
        /\ call_log = <<ConnectionReset, ConnectionReset, Response>>
               => /\ rpc = "done"
                  /\ call_outcome.kind = "returned"
                  /\ call_outcome.value.type = "response.parsed"
                  /\ sleeps = <<1, 2>>

C16_Witness ==
    /\ LlmRequest
    /\ ClientConnectorError = "ClientConnectorError"
    /\ call_log = <<ConnectionReset, ConnectionReset, Response>>
    /\ sleeps = <<1, 2>>
    /\ call_outcome.kind = "returned"

\* C17: an error of llm_request's model call that is neither network-class
\* nor a timeout (schema validation, auth, malformed request) ends the
\* request at once: it is raised to the caller, the model is not called
\* again and no wait follows it.
C17_NonRetryablePropagates ==
    (LlmRequest /\ call_log # <<>> /\ NonRetryable(LastCall)) =>
        /\ rpc = "done"
        /\ call_outcome = [kind |-> "raised", value |-> LastCall]
        /\ Len(sleeps) = Len(call_log) - 1

\* C18: no request calls the model more than max_retries (3) times, and
\* when the third attempt of llm_request fails, llm_request stops and raises
\* the exception of that attempt: it returns no value.
C18_BoundedAttempts ==
    /\ Len(call_log) <= max_retries
    /\ (LlmRequest /\ Len(call_log) = max_retries /\ LastCall \in Errors)
           => /\ rpc = "done"
              /\ call_outcome = [kind |-> "raised", value |-> LastCall]

C18_Witness ==
    /\ LlmRequest
    /\ call_log = <<ConnectionReset, TimedOut, ConnectionRefused>>
    /\ sleeps = <<1, 2>>
    /\ rpc = "done"
    /\ call_outcome = [kind |-> "raised", value |-> ConnectionRefused]

\* C19: at the model call of the validity filter, of the segmentation and
\* of the intent analysis alike, a network-class or timeout/deadline
\* failure of an attempt that is not the last one allowed is followed by a
\* retry: the call site has not finished with a fallback or a failure.
C19_EveryCallRetried ==
    ( /\ call_site \in {"_ai_filter_batch", "_ai_segment_batch", "analyze_intent"}
      /\ call_log # <<>>
      /\ NetworkClass(LastCall) \/ TimeoutClass(LastCall)
      /\ Len(call_log) < max_retries )
        => rpc \in {"sleep", "call"}

(***************************************************************************)
(* One user through a pipeline                                             *)
(*                                                                         *)
(* _process_single_user of the single-call pipeline and the body of the    *)
(* per-user loop of analyze_user_intent of the staged pipeline.  Each      *)
(* model call runs the retry loop of its call site (the actions of         *)
(* SpecRetry) to its end; the per-user code then reads call_outcome.       *)
(* Responses that arrive are taken to be usable or unusable as a whole;    *)
(* what a parser makes of a given text is the matter of SpecParse.         *)
(***************************************************************************)
MaxSessions == 2         \* most time sessions of the user
MaxIntentSegments == 2   \* most intent segments found in one time session

Pipelines == {"single_call", "staged"}

\* the start of a model call from per-user code: the state of its call site
\* before the first iteration of the retry loop
CallModel(site) ==
    /\ call_site' = site
    /\ attempt' = 0
    /\ call_log' = <<>>
    /\ sleeps' = <<>>
    /\ call_outcome' = Pending
    /\ rpc' = "call"
    /\ UNCHANGED ClientConnectorError

CallFinished(site) == call_site = site /\ rpc = "done"

\* except Exception as e: of _process_single_user
ExceptException_NetworkOnly(e) == isinstance(e, "OSError")
ExceptException(e) == isinstance(e, "Exception")

\* the intent segments numbered first .. first + k - 1
SegmentRange(first, k) == [i \in 1 .. k |-> first + i - 1]

SessionResult(idx, segment, content) ==
    [session |-> idx, segment |-> segment, content |-> content]

InitUser ==
    /\ pipeline \in Pipelines
    /\ include_operation_recommendation \in
           IF pipeline = "single_call" THEN BOOLEAN ELSE {FALSE}
    /\ time_sessions \in
           IF pipeline = "single_call" THEN 0 .. MaxSessions ELSE 1 .. MaxSessions
    /\ session_idx = 1
    /\ pending_segments = <<>>
    /\ all_session_results = <<>>
    /\ user_outcome = "running"
    /\ upc = IF pipeline = "single_call" THEN "time_session" ELSE "filter"
    /\ call_site = "idle"
    /\ ClientConnectorError \in
           IF pipeline = "single_call" THEN ClientConnectorErrorBindings
           ELSE {"idle"}
    /\ attempt = 0 /\ call_log = <<>> /\ sleeps = <<>>
    /\ call_outcome = <<>> /\ rpc = "idle"
    /\ WindowIdle /\ BatchIdle /\ ParseIdle
    /\ AnalyzeIdle /\ PostPassIdle

\* ---- _process_single_user ----

\* the head of `for session_idx, time_session in enumerate(time_sessions, 1)`
\* and the call of comprehensive_analyze
ComprehensiveAnalyze ==
    /\ pipeline = "single_call" /\ upc = "time_session"
    /\ session_idx <= time_sessions
    /\ CallModel("llm_request")
    /\ upc' = "comprehensive_analyze"
    /\ UNCHANGED <<pipeline, include_operation_recommendation, time_sessions,
                   session_idx, pending_segments, all_session_results,
                   user_outcome, wvars, bvars, pvars>>
    /\ UNCHANGED <<avars, gvars>>

\* comprehensive_analyze returned: the result has its intent segments, or it
\* is not usable (response.parsed is None) and reading it raises inside the
\* try block
ComprehensiveResult ==
    /\ pipeline = "single_call" /\ upc = "comprehensive_analyze"
    /\ CallFinished("llm_request") /\ call_outcome.kind = "returned"
    /\ \/ \E k \in 0 .. MaxIntentSegments :
            /\ pending_segments' = SegmentRange(0, k)
            /\ upc' = "intent_segment"
            /\ UNCHANGED <<session_idx, user_outcome>>
       \/ /\ pending_segments' = <<>>
          /\ IF ExceptException([type |-> "AttributeError", str |-> <<>>])
             THEN /\ session_idx' = session_idx + 1
                  /\ upc' = "time_session"
                  /\ UNCHANGED user_outcome
             ELSE /\ user_outcome' = "raised"
                  /\ upc' = "done"
                  /\ UNCHANGED session_idx
    /\ UNCHANGED <<pipeline, include_operation_recommendation, time_sessions,
                   all_session_results, rvars, wvars, bvars, pvars>>
    /\ UNCHANGED <<avars, gvars>>

\* llm_request raised inside the try block: the except clause and `continue`
SessionFailed ==
    /\ pipeline = "single_call"
    /\ upc \in {"comprehensive_analyze", "generate_operation_recommendation"}
    /\ CallFinished("llm_request") /\ call_outcome.kind = "raised"
    /\ IF ExceptException(call_outcome.value)
       THEN /\ session_idx' = session_idx + 1
            /\ upc' = "time_session"
            /\ UNCHANGED user_outcome
       ELSE /\ user_outcome' = "raised"
            /\ upc' = "done"
            /\ UNCHANGED session_idx
    /\ pending_segments' = <<>>
    /\ UNCHANGED <<pipeline, include_operation_recommendation, time_sessions,
                   all_session_results, rvars, wvars, bvars, pvars>>
    /\ UNCHANGED <<avars, gvars>>

\* one iteration of `for seg in comprehensive_result.intent_segments` without
\* a recommendation: intent_result is built and appended
AppendIntentResult ==
    /\ pipeline = "single_call" /\ upc = "intent_segment"
    /\ pending_segments # <<>>
    /\ ~include_operation_recommendation
    /\ all_session_results' =
           Append(all_session_results,
                  SessionResult(session_idx, Head(pending_segments), "intent"))
    /\ pending_segments' = Tail(pending_segments)
    /\ UNCHANGED <<pipeline, include_operation_recommendation, time_sessions,
                   session_idx, user_outcome, upc, rvars, wvars, bvars, pvars>>
    /\ UNCHANGED <<avars, gvars>>

\* the same iteration with a recommendation: generate_operation_recommendation
\* is called before the append
GenerateOperationRecommendation ==
    /\ pipeline = "single_call" /\ upc = "intent_segment"
    /\ pending_segments # <<>>
    /\ include_operation_recommendation
    /\ CallModel("llm_request")
    /\ upc' = "generate_operation_recommendation"
    /\ UNCHANGED <<pipeline, include_operation_recommendation, time_sessions,
                   session_idx, pending_segments, all_session_results,
                   user_outcome, wvars, bvars, pvars>>
    /\ UNCHANGED <<avars, gvars>>

\* generate_operation_recommendation returned: the append of the loop body
AppendRecommendedResult ==
    /\ pipeline = "single_call" /\ upc = "generate_operation_recommendation"
    /\ CallFinished("llm_request") /\ call_outcome.kind = "returned"
    /\ all_session_results' =
           Append(all_session_results,
                  SessionResult(session_idx, Head(pending_segments),
                                "intent+operation_recommendation"))
    /\ pending_segments' = Tail(pending_segments)
    /\ upc' = "intent_segment"
    /\ UNCHANGED <<pipeline, include_operation_recommendation, time_sessions,
                   session_idx, user_outcome, rvars, wvars, bvars, pvars>>
    /\ UNCHANGED <<avars, gvars>>

\* the end of the segment loop: the next time session
NextTimeSession ==
    /\ pipeline = "single_call" /\ upc = "intent_segment"
    /\ pending_segments = <<>>
    /\ session_idx' = session_idx + 1
    /\ upc' = "time_session"
    /\ UNCHANGED <<pipeline, include_operation_recommendation, time_sessions,
                   pending_segments, all_session_results, user_outcome,
                   rvars, wvars, bvars, pvars>>
    /\ UNCHANGED <<avars, gvars>>

\* the early return for an empty user_df and the return after the loop: the
\* result dictionary with "sessions": all_session_results
ReturnUserResult ==
    /\ pipeline = "single_call" /\ upc = "time_session"
    /\ session_idx > time_sessions
    /\ user_outcome' = "returned"
    /\ upc' = "done"
    /\ UNCHANGED <<pipeline, include_operation_recommendation, time_sessions,
                   session_idx, pending_segments, all_session_results,
                   rvars, wvars, bvars, pvars>>
    /\ UNCHANGED <<avars, gvars>>

\* ---- the per-user body of analyze_user_intent ----

\* filter_valid_actions(user_df): one batch through _ai_filter_batch
FilterValidActions ==
    /\ pipeline = "staged" /\ upc = "filter"
    /\ CallModel("_ai_filter_batch")
    /\ upc' = "filtered"
    /\ UNCHANGED <<pipeline, include_operation_recommendation, time_sessions,
                   session_idx, pending_segments, all_session_results,
                   user_outcome, wvars, bvars, pvars>>
    /\ UNCHANGED <<avars, gvars>>

\* if len(valid_actions) == 0: continue; otherwise the time sessions.  The
\* fallback keeps every row, parsed indices may keep none.
SkipOrGroupSessions ==
    /\ pipeline = "staged" /\ upc = "filtered"
    /\ CallFinished("_ai_filter_batch")
    /\ IF call_outcome.kind = "raised"
       THEN user_outcome' = "raised" /\ upc' = "done"
       ELSE \/ /\ call_outcome.value.type = "valid_indices"
               /\ user_outcome' = "skipped" /\ upc' = "done"
            \/ /\ user_outcome' = user_outcome /\ upc' = "segment"
    /\ UNCHANGED <<pipeline, include_operation_recommendation, time_sessions,
                   session_idx, pending_segments, all_session_results,
                   rvars, wvars, bvars, pvars>>
    /\ UNCHANGED <<avars, gvars>>

\* segment_actions_by_intent(session_df) for the next time session: one
\* batch through _ai_segment_batch
SegmentActionsByIntent ==
    /\ pipeline = "staged" /\ upc = "segment"
    /\ session_idx <= time_sessions
    /\ CallModel("_ai_segment_batch")
    /\ upc' = "segmented"
    /\ UNCHANGED <<pipeline, include_operation_recommendation, time_sessions,
                   session_idx, pending_segments, all_session_results,
                   user_outcome, wvars, bvars, pvars>>
    /\ UNCHANGED <<avars, gvars>>

\* all_intent_segments.extend(intent_segments): the fallback is the session
\* as one segment, parsed segments are one or more
ExtendIntentSegments ==
    /\ pipeline = "staged" /\ upc = "segmented"
    /\ CallFinished("_ai_segment_batch")
    /\ IF call_outcome.kind = "raised"
       THEN /\ user_outcome' = "raised" /\ upc' = "done"
            /\ UNCHANGED <<pending_segments, session_idx>>
       ELSE /\ \E k \in 1 .. MaxIntentSegments :
                 /\ call_outcome.value.type = "single_segment" => k = 1
                 /\ pending_segments' =
                        pending_segments
                            \o SegmentRange(Len(pending_segments), k)
            /\ session_idx' = session_idx + 1
            /\ upc' = "segment"
            /\ UNCHANGED user_outcome
    /\ UNCHANGED <<pipeline, include_operation_recommendation, time_sessions,
                   all_session_results, rvars, wvars, bvars, pvars>>
    /\ UNCHANGED <<avars, gvars>>

\* analyze_intent(user_context, segment_actions, history) for the next
\* intent segment
AnalyzeIntent ==
    /\ pipeline = "staged"
    /\ \/ upc = "segment" /\ session_idx > time_sessions
       \/ upc = "analyze"
    /\ pending_segments # <<>>
    /\ CallModel("analyze_intent")
    /\ upc' = "analyzed"
    /\ UNCHANGED <<pipeline, include_operation_recommendation, time_sessions,
                   session_idx, pending_segments, all_session_results,
                   user_outcome, wvars, bvars, pvars>>
    /\ UNCHANGED <<avars, gvars>>

\* session_results.append(intent_result): the parsed result or the error
\* dictionary
AppendSessionResult ==
    /\ pipeline = "staged" /\ upc = "analyzed"
    /\ CallFinished("analyze_intent")
    /\ IF call_outcome.kind = "raised"
       THEN /\ user_outcome' = "raised" /\ upc' = "done"
            /\ UNCHANGED <<pending_segments, all_session_results>>
       ELSE /\ all_session_results' =
                   Append(all_session_results,
                          SessionResult(0, Head(pending_segments),
                                        call_outcome.value.type))
            /\ pending_segments' = Tail(pending_segments)
            /\ upc' = "analyze"
            /\ UNCHANGED user_outcome
    /\ UNCHANGED <<pipeline, include_operation_recommendation, time_sessions,
                   session_idx, rvars, wvars, bvars, pvars>>
    /\ UNCHANGED <<avars, gvars>>

\* results[uuid] = {..., 'sessions': session_results}
StoreUserResult ==
    /\ pipeline = "staged" /\ upc = "analyze"
    /\ pending_segments = <<>>
    /\ user_outcome' = "returned"
    /\ upc' = "done"
    /\ UNCHANGED <<pipeline, include_operation_recommendation, time_sessions,
                   session_idx, pending_segments, all_session_results,
                   rvars, wvars, bvars, pvars>>
    /\ UNCHANGED <<avars, gvars>>

NextUser ==
    \/ ComprehensiveAnalyze
    \/ ComprehensiveResult
    \/ SessionFailed
    \/ AppendIntentResult
    \/ GenerateOperationRecommendation
    \/ AppendRecommendedResult
    \/ NextTimeSession
    \/ ReturnUserResult
    \/ FilterValidActions
    \/ SkipOrGroupSessions
    \/ SegmentActionsByIntent
    \/ ExtendIntentSegments
    \/ AnalyzeIntent
    \/ AppendSessionResult
    \/ StoreUserResult
    \/ GenerateContentReturns
    \/ LlmRequestExcept
    \/ BatchExcept
    \/ AnalyzeIntentExcept
    \/ Sleep

SpecUser == InitUser /\ [][NextUser]_vars

\* the per-user code runs to its end: every step that can be taken is taken
SpecUserFair == SpecUser /\ WF_vars(NextUser)

(***************************************************************************)
(* Claims on one user (SpecUser)                                           *)
(***************************************************************************)
\* C20: whatever the model calls do (any call, any attempt, any class of
\* error), processing one user never ends with an exception, it comes to
\* its end, and no result already appended is lost: the results returned
\* are all those obtained up to then.
C20_UserNeverRaises ==
    /\ [](user_outcome # "raised")
    /\ [][ /\ Len(all_session_results) <= Len(all_session_results')
           /\ SubSeq(all_session_results', 1, Len(all_session_results))
                  = all_session_results ]_vars
    /\ <>(upc = "done")

\* a user of the single-call pipeline whose last model call failed on all
\* three attempts, returned with the result obtained before it
C20_Witness ==
    /\ pipeline = "single_call"
    /\ user_outcome = "returned"
    /\ all_session_results # <<>>
    /\ call_outcome.kind = "raised"
    /\ Len(call_log) = max_retries

(***************************************************************************)
(* Claims on the isolation of a failing segment (SpecUser)                 *)
(***************************************************************************)
\* the model call made for the segment at the head of pending_segments has
\* failed and the per-user code is about to deal with the failure
RecommendationCallFailed ==
    /\ pipeline = "single_call" /\ upc = "generate_operation_recommendation"
    /\ CallFinished("llm_request") /\ call_outcome.kind = "raised"
AnalysisCallFailed ==
    /\ pipeline = "staged" /\ upc = "analyzed"
    /\ CallFinished("analyze_intent")
    /\ call_log # <<>> /\ LastCall \in Errors

\* C21: when the model call made for one segment fails, exactly that
\* segment is skipped: the step that deals with the failure appends no entry
\* to the user's results and leaves every later segment, those of the same
\* time session included, to be analysed.
C21_SegmentFailureIsolated ==
    [][ (RecommendationCallFailed \/ AnalysisCallFailed) =>
            /\ all_session_results' = all_session_results
            /\ pending_segments' = Tail(pending_segments) ]_vars

(***************************************************************************)
(* analyze_user_intent and its callers                                     *)
(*                                                                         *)
(* The caller holds a plan of calls of analyze_user_intent, merges what    *)
(* each call returns into all_results and writes the result file when the  *)
(* plan is done (run_analysis.py, choices 1 to 3, and the main functions   *)
(* of the two modules).  A call runs from the loading of its data to its   *)
(* return statement: the staged pipeline user after user, the single-call  *)
(* pipeline as one task per user behind a semaphore.  A model call is one  *)
(* step whose result is one of the results its call site can return.       *)
(***************************************************************************)
MaxConcurrent == 2       \* max_concurrent is 1..MaxConcurrent
ClusterGap == 31         \* minutes between two clusters of events of a user

\* Optional[...] arguments: None, or a value
None == <<>>
Some(x) == <<x>>

\* session_timeout_minutes=30 of every caller
CallerTimeout == 30

\* a dictionary is a function on its keys; d.update(e)
EmptyDict == <<>>
Update(d, e) == e @@ d

\* ---- the data ----
RECURSIVE ClusterOf(_, _)
ClusterOf(k, clusters) ==
    IF k < Head(clusters) THEN 1
    ELSE 1 + ClusterOf(k - Head(clusters), Tail(clusters))

RECURSIVE SumSeq(_)
SumSeq(ns) == IF Len(ns) = 0 THEN 0 ELSE Head(ns) + SumSeq(Tail(ns))

\* the events of one user, sorted by time: clusters[c] events at the minute
\* (c - 1) * ClusterGap
UserRows(u, clusters) ==
    [k \in 1 .. SumSeq(clusters) |->
        [user_uuid |-> u, row_id |-> k - 1,
         event_time |-> (ClusterOf(k - 1, clusters) - 1) * ClusterGap]]

\* what load_data returns: the rows sorted by user, then by time
SmallData == UserRows("A", <<2>>) \o UserRows("B", <<6>>) \o UserRows("C", <<1, 1>>)
BigData == UserRows("A", <<40, 40, 40>>)
LongData == UserRows("A", <<60>>)
Datasets == {SmallData, BigData, LongData}

\* df[df['user_uuid'] == u] and df[df['user_uuid'].isin(us)]
RowsOf(frame, u) == SelectSeq(frame, LAMBDA row : row.user_uuid = u)
RowsIn(frame, us) ==
    SelectSeq(frame, LAMBDA row : \E i \in 1 .. Len(us) : us[i] = row.user_uuid)

\* df['user_uuid'].unique(): the users in order of first appearance
RECURSIVE Unique(_)
Unique(frame) ==
    IF Len(frame) = 0 THEN <<>>
    ELSE LET u == frame[1].user_uuid
         IN <<u>> \o Unique(SelectSeq(frame, LAMBDA row : row.user_uuid # u))

\* df.groupby('user_uuid'): one (uuid, user_df) pair per user
GroupBy(frame) ==
    LET us == Unique(frame)
    IN [i \in 1 .. Len(us) |-> [uuid |-> us[i], user_df |-> RowsOf(frame, us[i])]]

RowIds(rows) == [k \in 1 .. Len(rows) |-> rows[k].row_id]

\* ---- the calls a caller makes ----
CallArgs(pipe, csv, pre, user) ==
    [pipeline |-> pipe, csv_path |-> csv, preloaded_df |-> pre, user |-> user]

\* run_analysis.py, choice 2 (and, with one user, choice 1 and the main
\* functions): one call per user of the list, on that user's rows.  (Choice
\* 3, one call on the whole frame, is among the calls with other arguments.)
PerUserPlan(pipe, data, num_users) ==
    LET user_list == SubSeq(Unique(data), 1, Min(num_users, Len(Unique(data))))
    IN [i \in 1 .. Len(user_list) |->
           CallArgs(pipe, None, Some(RowsOf(data, user_list[i])),
                    IF pipe = "staged" THEN Some(user_list[i])
                    ELSE Some(<<user_list[i]>>))]

\* a call of the function with other arguments: without data source, by
\* path, on an empty frame, for a user the data does not hold, for an
\* empty selection
UserArguments(pipe) ==
    IF pipe = "staged" THEN {None, Some(""), Some("Z"), Some("B")}
    ELSE {None, Some(<<>>), Some(<<"Z">>), Some(<<"B", "Z">>)}

DataSources(data) ==
    { <<None, None>>, <<Some(""), None>>, <<Some("data.csv"), None>>,
      <<Some(""), Some(data)>>, <<None, Some(<<>>)>> }

DirectPlans(pipe, data) ==
    { <<CallArgs(pipe, source[1], source[2], user)>> :
          source \in DataSources(data), user \in UserArguments(pipe) }

Plans(pipe, data) ==
    IF data = SmallData
    THEN {PerUserPlan(pipe, data, 3), PerUserPlan(pipe, data, 1)}
             \cup DirectPlans(pipe, data)
    ELSE IF pipe = "staged" THEN {PerUserPlan(pipe, data, 1)} ELSE {}

\* results of an earlier run found in the result file
StoredResult(u) ==
    [user_uuid |-> u, total_sessions |-> 1, sessions |-> <<"stored">>]
StoredFiles ==
    {None, Some([u \in {"A", "B"} |-> StoredResult(u)])}

InitAnalyze ==
    /\ data_csv \in Datasets
    /\ plan \in UNION { Plans(pipe, data_csv) : pipe \in Pipelines }
    /\ work_idx = 1
    /\ all_results = EmptyDict
    /\ output_file \in IF Len(plan) > 1 THEN StoredFiles ELSE {None}
    /\ max_concurrent \in 1 .. MaxConcurrent
    /\ plan[1].pipeline = "staged" => max_concurrent = 1
    /\ analysis_df = <<>>
    /\ user_groups = <<>>
    /\ group_idx = 0
    /\ body = <<>>
    /\ results = EmptyDict
    /\ tasks = <<>>
    /\ semaphore = <<>>
    /\ model_calls = <<>>
    /\ apc = "idle"
    /\ WindowIdle /\ BatchIdle /\ ParseIdle /\ RetryIdle /\ UserIdle /\ PostPassIdle

Call == plan[work_idx]

\* ---- the caller ----
\* results = analyzer.analyze_user_intent(...)
CallAnalyzeUserIntent ==
    /\ apc = "idle" /\ work_idx <= Len(plan)
    /\ apc' = "load"
    /\ results' = EmptyDict
    /\ UNCHANGED <<data_csv, plan, work_idx, all_results, output_file,
                   max_concurrent, analysis_df, user_groups, group_idx, body,
                   tasks, semaphore, model_calls>>
    /\ UNCHANGED <<wvars, bvars, pvars, rvars, uvars, gvars>>

\* all_results.update(results) (a caller that makes one call writes results
\* itself)
UpdateAllResults ==
    /\ apc = "returned"
    /\ all_results' = Update(all_results, results)
    /\ work_idx' = work_idx + 1
    /\ apc' = "idle"
    /\ UNCHANGED <<data_csv, plan, output_file, max_concurrent, analysis_df,
                   user_groups, group_idx, body, results, tasks, semaphore,
                   model_calls>>
    /\ UNCHANGED <<wvars, bvars, pvars, rvars, uvars, gvars>>

\* with open(output_file, 'w') as f: json.dump(all_results, f, ...)
WriteOutputFile ==
    /\ apc = "idle" /\ work_idx = Len(plan) + 1
    /\ output_file' = Some(all_results)
    /\ work_idx' = work_idx + 1
    /\ apc' = "written"
    /\ UNCHANGED <<data_csv, plan, all_results, max_concurrent, analysis_df,
                   user_groups, group_idx, body, results, tasks, semaphore,
                   model_calls>>
    /\ UNCHANGED <<wvars, bvars, pvars, rvars, uvars, gvars>>

\* ---- analyze_user_intent: loading and selecting (both pipelines) ----
ErrorResult(message) == [error |-> message]

\* `if preloaded_df is not None ... else: if not csv_path: return {'error': ...}`
LoadedFrame(call, file) ==
    IF call.preloaded_df # None THEN Some(call.preloaded_df[1])
    ELSE IF call.csv_path = None \/ call.csv_path = Some("") THEN None
    ELSE Some(file)

\* staged: `if user_uuid:`; single-call: `if user_uuids is not None and
\* len(user_uuids) > 0:`
SelectUsers_Unfiltered(call, frame) == frame
SelectUsers(call, frame) ==
    IF call.user = None THEN frame
    ELSE IF call.pipeline = "staged"
         THEN IF call.user[1] = "" THEN frame ELSE RowsOf(frame, call.user[1])
         ELSE IF Len(call.user[1]) = 0 THEN frame ELSE RowsIn(frame, call.user[1])

ModelCall(stage_name, uuid, start_index, rows, history) ==
    [stage |-> stage_name, uuid |-> uuid, start_index |-> start_index,
     rows |-> RowIds(rows), history |-> history]

LoadData ==
    /\ apc = "load"
    /\ LET loaded == LoadedFrame(Call, data_csv)
       IN IF loaded = None
          THEN /\ results' = ErrorResult("no data source")
               /\ apc' = "returned"
               /\ UNCHANGED <<analysis_df, user_groups, group_idx>>
          ELSE IF Len(SelectUsers(Call, loaded[1])) = 0
          THEN /\ results' = ErrorResult("no user data")
               /\ apc' = "returned"
               /\ UNCHANGED <<analysis_df, user_groups, group_idx>>
          ELSE /\ analysis_df' = SelectUsers(Call, loaded[1])
               /\ user_groups' = GroupBy(SelectUsers(Call, loaded[1]))
               /\ group_idx' = 1
               /\ results' = EmptyDict
               /\ apc' = IF Call.pipeline = "staged" THEN "group" ELSE "tasks"
    /\ UNCHANGED <<data_csv, plan, work_idx, all_results, output_file,
                   max_concurrent, body, tasks, semaphore, model_calls>>
    /\ UNCHANGED <<wvars, bvars, pvars, rvars, uvars, gvars>>

\* ---- the staged pipeline: the loop over df.groupby('user_uuid') ----
\* what _ai_filter_batch may return for a batch: every index of the batch
\* (all valid, or the fallback), or its first index alone
FilterBatchResults(start_index, n) == {RangeList(start_index, n), <<start_index>>}

\* what _ai_segment_batch may return: the batch as one segment (also the
\* fallback), or its two halves
SegmentBatchResults(batch_actions) ==
    {<<batch_actions>>} \cup
    IF Len(batch_actions) < 2 THEN {}
    ELSE {<<SubSeq(batch_actions, 1, Len(batch_actions) \div 2),
            SubSeq(batch_actions, Len(batch_actions) \div 2 + 1, Len(batch_actions))>>}

\* what analyze_intent may return for a segment: the parsed result of the
\* model, or the error dictionary
AnalysisResults(uuid, segment_idx) ==
    { [kind |-> k, of |-> <<uuid, segment_idx>>] : k \in {"result", "error"} }

\* intent_result with the three keys added in lines 1528-1530
SessionEntry(intent_result, segment_idx, segment_actions) ==
    [intent_result |-> intent_result, session_index |-> segment_idx,
     session_size |-> Len(segment_actions)]

\* the locals of the loop body at its start
LoopBody(group) ==
    [uuid |-> group.uuid, user_df |-> group.user_df,
     batch_start |-> 0, all_valid_indices |-> <<>>, valid_actions |-> <<>>,
     time_sessions |-> <<>>, session_pos |-> 1, all_segments |-> <<>>,
     all_intent_segments |-> <<>>, segment_idx |-> 0,
     session_results |-> <<>>, history |-> None]

\* for uuid, user_df in df.groupby('user_uuid'):
StagedNextUser ==
    /\ apc = "group" /\ group_idx <= Len(user_groups)
    /\ body' = LoopBody(user_groups[group_idx])
    /\ apc' = "filter"
    /\ UNCHANGED <<data_csv, plan, work_idx, all_results, output_file,
                   max_concurrent, analysis_df, user_groups, group_idx, results,
                   tasks, semaphore, model_calls>>
    /\ UNCHANGED <<wvars, bvars, pvars, rvars, uvars, gvars>>

\* filter_valid_actions(user_df): one batch of _ai_filter_valid_actions; after
\* the last batch, user_actions.iloc[valid_indices]
StagedFilterBatch ==
    /\ apc = "filter"
    /\ LET total_actions == Len(body.user_df)
           batch_end == BatchEnd(body.batch_start, total_actions)
           batch_actions == IlocSlice(body.user_df, body.batch_start, batch_end)
           last == body.batch_start + MAX_ACTIONS_PER_BATCH >= total_actions
       IN \E batch_indices \in FilterBatchResults(body.batch_start, Len(batch_actions)) :
            /\ model_calls' = Append(model_calls,
                   ModelCall("filter", body.uuid, body.batch_start, batch_actions, None))
            /\ body' = [body EXCEPT
                   !.all_valid_indices = @ \o batch_indices,
                   !.batch_start = IF last THEN 0 ELSE @ + MAX_ACTIONS_PER_BATCH,
                   !.valid_actions =
                       IF last
                       THEN IlocList(body.user_df, body.all_valid_indices \o batch_indices)
                       ELSE @]
            /\ apc' = IF last THEN "filtered" ELSE "filter"
    /\ UNCHANGED <<data_csv, plan, work_idx, all_results, output_file,
                   max_concurrent, analysis_df, user_groups, group_idx, results,
                   tasks, semaphore>>
    /\ UNCHANGED <<wvars, bvars, pvars, rvars, uvars, gvars>>

\* if len(valid_actions) == 0: continue; time_sessions = group_user_actions_by_session(...)
StagedGroupSessions ==
    /\ apc = "filtered"
    /\ IF Len(body.valid_actions) = 0
       THEN /\ group_idx' = group_idx + 1
            /\ apc' = "group"
            /\ UNCHANGED body
       ELSE /\ body' = [body EXCEPT !.time_sessions =
                   group_user_actions_by_session(body.valid_actions, CallerTimeout)]
            /\ apc' = "segment"
            /\ UNCHANGED group_idx
    /\ UNCHANGED <<data_csv, plan, work_idx, all_results, output_file,
                   max_concurrent, analysis_df, user_groups, results,
                   tasks, semaphore, model_calls>>
    /\ UNCHANGED <<wvars, bvars, pvars, rvars, uvars, gvars>>

\* the position reached after the segmentation of the session at session_pos
AfterSession_First(b) == "analyze"
AfterSession(b) ==
    IF b.session_pos + 1 > Len(b.time_sessions) THEN "analyze" ELSE "segment"

\* segment_actions_by_intent(session_df) for a session of at most 5 actions:
\* one segment, no model call
StagedSegmentShort ==
    /\ apc = "segment"
    /\ Len(body.time_sessions[body.session_pos]) <= 5
    /\ body' = [body EXCEPT
           !.all_intent_segments = @ \o <<body.time_sessions[body.session_pos]>>,
           !.session_pos = @ + 1]
    /\ apc' = AfterSession(body)
    /\ UNCHANGED <<data_csv, plan, work_idx, all_results, output_file,
                   max_concurrent, analysis_df, user_groups, group_idx, results,
                   tasks, semaphore, model_calls>>
    /\ UNCHANGED <<wvars, bvars, pvars, rvars, uvars, gvars>>

\* segment_actions_by_intent(session_df) for a longer session: one batch of
\* _ai_segment_by_intent; after the last batch,
\* all_intent_segments.extend(intent_segments)
StagedSegmentBatch ==
    /\ apc = "segment"
    /\ Len(body.time_sessions[body.session_pos]) > 5
    /\ LET session_df == body.time_sessions[body.session_pos]
           total_actions == Len(session_df)
           batch_end == BatchEnd(body.batch_start, total_actions)
           batch_actions == IlocSlice(session_df, body.batch_start, batch_end)
           last == body.batch_start + MAX_ACTIONS_PER_BATCH >= total_actions
       IN \E batch_segments \in SegmentBatchResults(batch_actions) :
            /\ model_calls' = Append(model_calls,
                   ModelCall("segment", body.uuid, body.batch_start, batch_actions, None))
            /\ body' = [body EXCEPT
                   !.all_segments = IF last THEN <<>> ELSE @ \o batch_segments,
                   !.batch_start = IF last THEN 0 ELSE @ + MAX_ACTIONS_PER_BATCH,
                   !.all_intent_segments =
                       IF last THEN @ \o body.all_segments \o batch_segments ELSE @,
                   !.session_pos = IF last THEN @ + 1 ELSE @]
            /\ apc' = IF last THEN AfterSession(body) ELSE "segment"
    /\ UNCHANGED <<data_csv, plan, work_idx, all_results, output_file,
                   max_concurrent, analysis_df, user_groups, group_idx, results,
                   tasks, semaphore>>
    /\ UNCHANGED <<wvars, bvars, pvars, rvars, uvars, gvars>>

\* the history handed to the next analysis: `history = intent_result`
NextHistory_Kept(history, appended) == history
NextHistory(history, appended) == Some(appended)

\* one iteration of `for segment_idx, segment_actions in enumerate(all_intent_segments)`
StagedAnalyzeSegment ==
    /\ apc = "analyze"
    /\ body.segment_idx < Len(body.all_intent_segments)
    /\ LET segment_actions == body.all_intent_segments[body.segment_idx + 1]
       IN \E intent_result \in AnalysisResults(body.uuid, body.segment_idx) :
            LET appended == SessionEntry(intent_result, body.segment_idx, segment_actions)
            IN /\ model_calls' = Append(model_calls,
                      ModelCall("analyze", body.uuid, 0, segment_actions, body.history))
               /\ body' = [body EXCEPT
                      !.session_results = Append(@, appended),
                      !.history = NextHistory(@, appended),
                      !.segment_idx = @ + 1]
    /\ UNCHANGED <<data_csv, plan, work_idx, all_results, output_file,
                   max_concurrent, analysis_df, user_groups, group_idx, results,
                   tasks, semaphore, apc>>
    /\ UNCHANGED <<wvars, bvars, pvars, rvars, uvars, gvars>>

\* results[uuid] = {'user_uuid': ..., 'total_sessions': ..., 'sessions': ...}
StagedStoreResult ==
    /\ apc = "analyze"
    /\ body.segment_idx = Len(body.all_intent_segments)
    /\ results' = Update(results,
           [u \in {body.uuid} |->
               [user_uuid |-> body.uuid,
                total_sessions |-> Len(body.all_intent_segments),
                sessions |-> body.session_results]])
    /\ group_idx' = group_idx + 1
    /\ apc' = "group"
    /\ UNCHANGED <<data_csv, plan, work_idx, all_results, output_file,
                   max_concurrent, analysis_df, user_groups, body,
                   tasks, semaphore, model_calls>>
    /\ UNCHANGED <<wvars, bvars, pvars, rvars, uvars, gvars>>

\* return results
StagedReturn ==
    /\ apc = "group" /\ group_idx > Len(user_groups)
    /\ apc' = "returned"
    /\ UNCHANGED <<data_csv, plan, work_idx, all_results, output_file,
                   max_concurrent, analysis_df, user_groups, group_idx, body,
                   results, tasks, semaphore, model_calls>>
    /\ UNCHANGED <<wvars, bvars, pvars, rvars, uvars, gvars>>

\* ---- the single-call pipeline: one task per user behind a semaphore ----
\* asyncio.Semaphore(max_concurrent)
Semaphore(value) == [value |-> value, waiters |-> <<>>]

\* `async with semaphore:` cannot enter at once when no slot is free (or
\* when earlier tasks are still waiting for one)
locked_Never(sem) == FALSE
locked(sem) == sem.value = 0 \/ Len(sem.waiters) > 0

\* process_with_semaphore(uuid, user_df) before its first step.  The field
\* time_sessions holds what group_user_actions_by_session gives for user_df;
\* _process_single_user reads it once it has its slot.
UserTask(group) ==
    [uuid |-> group.uuid, user_df |-> group.user_df, state |-> "created",
     time_sessions |-> group_user_actions_by_session(group.user_df, CallerTimeout),
     session_idx |-> 1, all_session_results |-> <<>>]

\* the valid_action_indices of the intent segments of one comprehensive
\* result for a time session of n rows: one segment holding the session, or
\* two segments that both name every row
IntentSegmentLists(n) ==
    { <<RangeList(0, n)>>, <<RangeList(0, n), RangeList(0, n)>> }

\* what comprehensive_analyze may do for a time session: raise, or return
\* intent segments
ComprehensiveResults(uuid, session_no, n) ==
    { [kind |-> "raised", of |-> <<uuid, session_no>>, intent_segments |-> <<>>] }
    \cup { [kind |-> "result", of |-> <<uuid, session_no>>, intent_segments |-> ls] :
              ls \in IntentSegmentLists(n) }

\* lines 433-460: one entry per intent segment of the result, with
\* session_index = seg.segment_index and
\* session_size = len(seg.valid_action_indices)
IntentResults(r) ==
    [k \in 1 .. Len(r.intent_segments) |->
        SessionEntry(r, k - 1, r.intent_segments[k])]

Running == { i \in DOMAIN tasks : tasks[i].state = "running" }
Waiting == { i \in DOMAIN tasks : tasks[i].state = "waiting" }

\* semaphore = asyncio.Semaphore(max_concurrent); tasks = [...]
CreateTasks ==
    /\ apc = "tasks"
    /\ semaphore' = Semaphore(max_concurrent)
    /\ tasks' = [i \in 1 .. Len(user_groups) |-> UserTask(user_groups[i])]
    /\ apc' = "gather"
    /\ UNCHANGED <<data_csv, plan, work_idx, all_results, output_file,
                   max_concurrent, analysis_df, user_groups, group_idx, body,
                   results, model_calls>>
    /\ UNCHANGED <<wvars, bvars, pvars, rvars, uvars, gvars>>

\* the first step of a task: `async with semaphore:` takes a slot and
\* _process_single_user runs up to its first model call, or the task is
\* suspended in the queue of the semaphore
TaskAcquire(i) ==
    /\ apc = "gather" /\ tasks[i].state = "created"
    /\ IF locked(semaphore)
       THEN /\ semaphore' = [semaphore EXCEPT !.waiters = Append(@, i)]
            /\ tasks' = [tasks EXCEPT ![i].state = "waiting"]
       ELSE /\ semaphore' = [semaphore EXCEPT !.value = @ - 1]
            /\ tasks' = [tasks EXCEPT ![i].state = "running"]
    /\ UNCHANGED <<data_csv, plan, work_idx, all_results, output_file,
                   max_concurrent, analysis_df, user_groups, group_idx, body,
                   results, model_calls, apc>>
    /\ UNCHANGED <<wvars, bvars, pvars, rvars, uvars, gvars>>

\* a released slot goes to the task that has waited longest
TaskAdmitted(i) ==
    /\ apc = "gather" /\ tasks[i].state = "waiting"
    /\ semaphore.value > 0 /\ Head(semaphore.waiters) = i
    /\ semaphore' = [value |-> semaphore.value - 1,
                     waiters |-> Tail(semaphore.waiters)]
    /\ tasks' = [tasks EXCEPT ![i].state = "running"]
    /\ UNCHANGED <<data_csv, plan, work_idx, all_results, output_file,
                   max_concurrent, analysis_df, user_groups, group_idx, body,
                   results, model_calls, apc>>
    /\ UNCHANGED <<wvars, bvars, pvars, rvars, uvars, gvars>>

\* one iteration of the loop over time_sessions in _process_single_user: the
\* comprehensive call, then the append of its segment or the except clause
TaskComprehensiveAnalyze(i) ==
    /\ apc = "gather" /\ tasks[i].state = "running"
    /\ tasks[i].session_idx <= Len(tasks[i].time_sessions)
    /\ LET time_session == tasks[i].time_sessions[tasks[i].session_idx]
       IN \E r \in ComprehensiveResults(tasks[i].uuid, tasks[i].session_idx,
                                         Len(time_session)) :
            /\ model_calls' = Append(model_calls,
                   ModelCall("comprehensive", tasks[i].uuid, 0, time_session, None))
            /\ tasks' = [tasks EXCEPT
                   ![i].session_idx = @ + 1,
                   ![i].all_session_results =
                       IF r.kind = "result" THEN @ \o IntentResults(r) ELSE @]
    /\ UNCHANGED <<data_csv, plan, work_idx, all_results, output_file,
                   max_concurrent, analysis_df, user_groups, group_idx, body,
                   results, semaphore, apc>>
    /\ UNCHANGED <<wvars, bvars, pvars, rvars, uvars, gvars>>

\* sum(result.get("session_size", 0) for result in all_session_results)
RECURSIVE TotalValid(_)
TotalValid(entries) ==
    IF Len(entries) = 0 THEN 0
    ELSE Head(entries).session_size + TotalValid(Tail(entries))

\* the dictionary returned by _process_single_user
UserResult(task) ==
    [user_uuid |-> task.uuid,
     total_sessions |-> Len(task.all_session_results),
     total_actions_original |-> Len(task.user_df),
     total_actions_valid |-> TotalValid(task.all_session_results),
     total_actions_analyzed |-> TotalValid(task.all_session_results),
     sessions |-> task.all_session_results]

\* _process_single_user returns and the `async with` block gives its slot back
TaskReturn_KeepsSlot(i) ==
    /\ apc = "gather" /\ tasks[i].state = "running"
    /\ tasks[i].session_idx > Len(tasks[i].time_sessions)
    /\ tasks' = [tasks EXCEPT ![i].state = "done"]
    /\ UNCHANGED <<data_csv, plan, work_idx, all_results, output_file,
                   max_concurrent, analysis_df, user_groups, group_idx, body,
                   results, model_calls, apc, semaphore>>
    /\ UNCHANGED <<wvars, bvars, pvars, rvars, uvars, gvars>>
TaskReturn(i) ==
    /\ apc = "gather" /\ tasks[i].state = "running"
    /\ tasks[i].session_idx > Len(tasks[i].time_sessions)
    /\ tasks' = [tasks EXCEPT ![i].state = "done"]
    /\ semaphore' = [semaphore EXCEPT !.value = @ + 1]
    /\ UNCHANGED <<data_csv, plan, work_idx, all_results, output_file,
                   max_concurrent, analysis_df, user_groups, group_idx, body,
                   results, model_calls, apc>>
    /\ UNCHANGED <<wvars, bvars, pvars, rvars, uvars, gvars>>

\* results_list = await asyncio.gather(*tasks); return {uuid: result ...}
Gather_CompletionOrder ==
    /\ apc = "gather"
    /\ \A i \in DOMAIN tasks : tasks[i].state = "done"
    /\ results' = [u \in { tasks[i].uuid : i \in DOMAIN tasks } |->
                      UserResult(tasks[Len(tasks) + 1
                          - CHOOSE i \in DOMAIN tasks : tasks[i].uuid = u])]
    /\ apc' = "returned"
    /\ UNCHANGED <<data_csv, plan, work_idx, all_results, output_file,
                   max_concurrent, analysis_df, user_groups, group_idx, body,
                   tasks, semaphore, model_calls>>
    /\ UNCHANGED <<wvars, bvars, pvars, rvars, uvars, gvars>>
Gather ==
    /\ apc = "gather"
    /\ \A i \in DOMAIN tasks : tasks[i].state = "done"
    /\ results' = [u \in { tasks[i].uuid : i \in DOMAIN tasks } |->
                      UserResult(tasks[CHOOSE i \in DOMAIN tasks : tasks[i].uuid = u])]
    /\ apc' = "returned"
    /\ UNCHANGED <<data_csv, plan, work_idx, all_results, output_file,
                   max_concurrent, analysis_df, user_groups, group_idx, body,
                   tasks, semaphore, model_calls>>
    /\ UNCHANGED <<wvars, bvars, pvars, rvars, uvars, gvars>>

NextAnalyze ==
    \/ CallAnalyzeUserIntent
    \/ UpdateAllResults
    \/ WriteOutputFile
    \/ LoadData
    \/ StagedNextUser
    \/ StagedFilterBatch
    \/ StagedGroupSessions
    \/ StagedSegmentShort
    \/ StagedSegmentBatch
    \/ StagedAnalyzeSegment
    \/ StagedStoreResult
    \/ StagedReturn
    \/ CreateTasks
    \/ \E i \in DOMAIN tasks : TaskAcquire(i)
    \/ \E i \in DOMAIN tasks : TaskAdmitted(i)
    \/ \E i \in DOMAIN tasks : TaskComprehensiveAnalyze(i)
    \/ \E i \in DOMAIN tasks : TaskReturn(i)
    \/ Gather

SpecAnalyze == InitAnalyze /\ [][NextAnalyze]_vars

\* the event loop runs every task that is ready: as long as some task can
\* take a step, a task takes one in the end, and the coroutine that awaits
\* gather goes on once every task is done
TaskStep ==
    \E i \in DOMAIN tasks :
        TaskAcquire(i) \/ TaskAdmitted(i) \/ TaskComprehensiveAnalyze(i) \/ TaskReturn(i)

SpecAnalyzeFair == SpecAnalyze /\ WF_vars(TaskStep) /\ WF_vars(Gather)

(***************************************************************************)
(* generate_operation_recommendations_batch                                *)
(*                                                                         *)
(* The post-pass reads the result document, asks the model for a           *)
(* recommendation for every session that has none, and writes the document *)
(* back.  Several post-passes may run on the same file; each one takes its *)
(* steps (reading the file, one session of the loop, writing the file) in  *)
(* any order with the steps of the others.                                 *)
(***************************************************************************)
Writers == 2             \* post-passes running on the same file
MaxRuns == 2             \* runs of the post-pass the first writer makes

\* a session of the document; operation_recommendation is None when the key
\* is absent, else the value of the key: <<>> when it is an empty
\* dictionary, <<w>> for the recommendation that writer w got from the model
\* (0: one that was in the first document)
Session(k, recommendation) ==
    [session_index |-> k, operation_recommendation |-> recommendation]

RecommendationStates == {None, Some(<<>>), Some(<<0>>)}

\* an entry of the document: a user's result with its sessions, or a value
\* without the key 'sessions'
UserData(u, sessions_list) ==
    [user_uuid |-> u, has_sessions |-> TRUE, sessions |-> sessions_list]
NoSessions(u) == [user_uuid |-> u, has_sessions |-> FALSE, sessions |-> <<>>]

\* the documents a post-pass may find: two sessions of user A, an entry
\* without sessions, one session of user B
Documents ==
    { << UserData("A", <<Session(0, a0), Session(1, a1)>>),
         NoSessions("error"),
         UserData("B", <<Session(0, b0)>>) >> :
        a0 \in RecommendationStates, a1 \in {None},
        b0 \in {None, Some(<<0>>)} }

\* the file: the document and the layout of its text (json.dump(results, f,
\* indent=2, ensure_ascii=False) writes one layout; json.load keeps none)
Layouts == {"indent2", "other"}
JsonFile(layout, doc) == [layout |-> layout, doc |-> doc]
JsonLoad(file) == file.doc
JsonDump(doc) == JsonFile("indent2", doc)

NoFile == JsonFile("none", <<>>)

\* the first writer runs the post-pass again on what is in the file, the
\* others run it once
RunsOf(w) == IF w = 1 THEN MaxRuns ELSE 1

\* the locals of a post-pass
InitialPass ==
    [pc |-> "idle", run |-> 0, results |-> <<>>, user_pos |-> 1, session_pos |-> 1,
     made |-> 0, failed |-> 0, loaded |-> NoFile, written |-> NoFile,
     prev_made |-> 0, prev_failed |-> 0, prev_written |-> NoFile]

InitPostPass ==
    /\ intent_results_file \in { JsonFile(layout, doc) :
                                     layout \in Layouts, doc \in Documents }
    /\ passes = [w \in 1 .. Writers |-> InitialPass]
    /\ requests = EmptyBag
    /\ WindowIdle /\ BatchIdle /\ ParseIdle /\ RetryIdle /\ UserIdle /\ AnalyzeIdle

\* `"operation_recommendation" in session and session["operation_recommendation"]`
HasRecommendation_Never(session) == FALSE
HasRecommendation(session) ==
    /\ session.operation_recommendation # None
    /\ Len(session.operation_recommendation[1]) > 0

\* with open(intent_results_file, "r") as f: results = json.load(f)
PassLoad(w) ==
    /\ passes[w].pc = "idle" /\ passes[w].run < RunsOf(w)
    /\ passes' = [passes EXCEPT ![w] =
           [@ EXCEPT !.pc = "loop",
                     !.results = JsonLoad(intent_results_file),
                     !.loaded = intent_results_file,
                     !.user_pos = 1, !.session_pos = 1,
                     !.made = 0, !.failed = 0,
                     !.prev_made = passes[w].made,
                     !.prev_failed = passes[w].failed,
                     !.prev_written = passes[w].written]]
    /\ UNCHANGED <<intent_results_file, requests>>
    /\ UNCHANGED <<wvars, bvars, pvars, rvars, uvars, avars>>

CurrentUser(p) == p.results[p.user_pos]
CurrentSession(p) == CurrentUser(p).sessions[p.session_pos]

\* if "sessions" not in user_data: continue
PassSkipUser(w) ==
    /\ passes[w].pc = "loop" /\ passes[w].user_pos <= Len(passes[w].results)
    /\ ~CurrentUser(passes[w]).has_sessions
    /\ passes' = [passes EXCEPT ![w].user_pos = @ + 1]
    /\ UNCHANGED <<intent_results_file, requests>>
    /\ UNCHANGED <<wvars, bvars, pvars, rvars, uvars, avars>>

\* a session that has a recommendation: continue
PassSkipSession(w) ==
    /\ passes[w].pc = "loop" /\ passes[w].user_pos <= Len(passes[w].results)
    /\ CurrentUser(passes[w]).has_sessions
    /\ passes[w].session_pos <= Len(CurrentUser(passes[w]).sessions)
    /\ HasRecommendation(CurrentSession(passes[w]))
    /\ passes' = [passes EXCEPT ![w].session_pos = @ + 1]
    /\ UNCHANGED <<intent_results_file, requests>>
    /\ UNCHANGED <<wvars, bvars, pvars, rvars, uvars, avars>>

\* generate_operation_recommendation(session): one request; the session gets
\* the recommendation of the response, or the request raises and the
\* session stays as it is
Request(w, p) ==
    [writer |-> w, run |-> p.run + 1, user_uuid |-> CurrentUser(p).user_uuid,
     session_index |-> CurrentSession(p).session_index]

PassRecommend(w) ==
    /\ passes[w].pc = "loop" /\ passes[w].user_pos <= Len(passes[w].results)
    /\ CurrentUser(passes[w]).has_sessions
    /\ passes[w].session_pos <= Len(CurrentUser(passes[w]).sessions)
    /\ ~HasRecommendation(CurrentSession(passes[w]))
    /\ requests' = requests (+) SetToBag({Request(w, passes[w])})
    /\ \E raised \in BOOLEAN :
          passes' = [passes EXCEPT ![w] =
              IF raised
              THEN [@ EXCEPT !.failed = @ + 1, !.session_pos = @ + 1]
              ELSE [@ EXCEPT
                      !.results[passes[w].user_pos].sessions[passes[w].session_pos]
                          .operation_recommendation = Some(<<w>>),
                      !.made = @ + 1,
                      !.session_pos = @ + 1]]
    /\ UNCHANGED intent_results_file
    /\ UNCHANGED <<wvars, bvars, pvars, rvars, uvars, avars>>

\* results[user_uuid]["sessions"] = sessions, and the next user
PassNextUser(w) ==
    /\ passes[w].pc = "loop" /\ passes[w].user_pos <= Len(passes[w].results)
    /\ CurrentUser(passes[w]).has_sessions
    /\ passes[w].session_pos > Len(CurrentUser(passes[w]).sessions)
    /\ passes' = [passes EXCEPT ![w].user_pos = @ + 1, ![w].session_pos = 1]
    /\ UNCHANGED <<intent_results_file, requests>>
    /\ UNCHANGED <<wvars, bvars, pvars, rvars, uvars, avars>>

\* with open(output_file, "w") as f: json.dump(results, f, ...), output_file
\* being the file that was read
PassWrite(w) ==
    /\ passes[w].pc = "loop" /\ passes[w].user_pos > Len(passes[w].results)
    /\ intent_results_file' = JsonDump(passes[w].results)
    /\ passes' = [passes EXCEPT ![w].pc = "idle", ![w].run = @ + 1,
                                ![w].written = JsonDump(passes[w].results)]
    /\ UNCHANGED requests
    /\ UNCHANGED <<wvars, bvars, pvars, rvars, uvars, avars>>

NextPostPass ==
    \/ \E w \in 1 .. Writers : PassLoad(w)
    \/ \E w \in 1 .. Writers : PassSkipUser(w)
    \/ \E w \in 1 .. Writers : PassSkipSession(w)
    \/ \E w \in 1 .. Writers : PassRecommend(w)
    \/ \E w \in 1 .. Writers : PassNextUser(w)
    \/ \E w \in 1 .. Writers : PassWrite(w)

SpecPostPass == InitPostPass /\ [][NextPostPass]_vars

(***************************************************************************)
(* Claims on analyze_user_intent and its callers (SpecAnalyze)             *)
(***************************************************************************)
MaxTasks == 3            \* the largest data set has three users

InFlight == Cardinality(Running)

\* C22: while the single-call analyze_user_intent runs its user tasks, the
\* number of users inside _process_single_user never exceeds max_concurrent
\* (the slots taken and the slots free always add up to max_concurrent); a
\* task that finds no free slot is put in the queue of the semaphore, it
\* does not end, and every task in the queue is admitted later.
C22_AdmissionGate ==
    /\ [](apc = "gather" =>
             /\ InFlight <= max_concurrent
             /\ semaphore.value + InFlight = max_concurrent)
    /\ [][ \A i \in DOMAIN tasks :
             (apc = "gather" /\ tasks[i].state = "created"
                 /\ semaphore.value = 0 /\ tasks'[i].state # "created")
                => /\ tasks'[i].state = "waiting"
                   /\ semaphore'.waiters = Append(semaphore.waiters, i) ]_vars
    /\ \A i \in 1 .. MaxTasks :
          (i \in DOMAIN tasks /\ tasks[i].state = "waiting")
              ~> (i \in DOMAIN tasks /\ tasks[i].state = "running")

\* the gate is saturated and a task is suspended behind it
C22_Witness ==
    /\ apc = "gather"
    /\ InFlight = max_concurrent
    /\ Waiting # {}
    /\ \E i \in DOMAIN tasks : tasks[i].state = "done"

\* the users whose processing is complete: their result is in the dictionary
\* the call builds, in the list gather collects, or merged by the caller
CompletedResults ==
    LET merged == [u \in DOMAIN all_results \ {"error"} |-> all_results[u]]
        built == [u \in DOMAIN results \ {"error"} |-> results[u]]
        returned == IF apc = "gather"
                    THEN [u \in { tasks[i].uuid : i \in { j \in DOMAIN tasks :
                                      tasks[j].state = "done" } } |->
                             UserResult(tasks[CHOOSE i \in DOMAIN tasks : tasks[i].uuid = u])]
                    ELSE EmptyDict
    IN merged @@ built @@ returned

InStore(u, user_result) ==
    /\ output_file # None
    /\ u \in DOMAIN output_file[1]
    /\ output_file[1][u] = user_result

\* C23: the result of every user whose processing is complete is in the
\* result file, whatever remains to be done for the other users.
C23_IncrementalPersistence ==
    \A u \in DOMAIN CompletedResults : InStore(u, CompletedResults[u])

\* C24: a user whose result the result file already holds gets no model call,
\* and no step changes a result the file holds.
C24_Resume ==
    /\ [](output_file # None /\ apc # "written" =>
             \A k \in DOMAIN model_calls :
                 model_calls[k].uuid \notin DOMAIN output_file[1])
    /\ [][ output_file # None =>
             \A u \in DOMAIN output_file[1] :
                 /\ output_file' # None
                 /\ u \in DOMAIN output_file'[1]
                 /\ output_file'[1][u] = output_file[1][u] ]_vars

\* the model calls of one stage logged for a user
CallsOfStage(uuid, stage_name) ==
    Cardinality({ k \in DOMAIN model_calls :
                    model_calls[k].uuid = uuid /\ model_calls[k].stage = stage_name })

StageRank(stage_name) ==
    CASE stage_name = "filter" -> 1
      [] stage_name = "segment" -> 2
      [] stage_name = "analyze" -> 3
      [] OTHER -> 0

\* the batches of MAX_ACTIONS_PER_BATCH rows that n rows make
NumBatches(n) == (n + MAX_ACTIONS_PER_BATCH - 1) \div MAX_ACTIONS_PER_BATCH

\* the segmentation batches of a list of time sessions (none for a session
\* of at most 5 rows)
RECURSIVE SegmentBatches(_)
SegmentBatches(sessions_list) ==
    IF Len(sessions_list) = 0 THEN 0
    ELSE (IF Len(Head(sessions_list)) <= 5 THEN 0
          ELSE NumBatches(Len(Head(sessions_list))))
         + SegmentBatches(Tail(sessions_list))

\* C27: in the staged pipeline the model calls of one user are ordered filter,
\* segmentation, analysis; when the sessions of the user are segmented every
\* filter batch of the user has been issued, and when the segments are
\* analysed every segmentation batch of every session has been issued.
C27_StageOrder ==
    /\ \A j \in DOMAIN model_calls : \A k \in DOMAIN model_calls :
          (j < k /\ model_calls[j].uuid = model_calls[k].uuid
                 /\ StageRank(model_calls[j].stage) > 0
                 /\ StageRank(model_calls[k].stage) > 0)
             => StageRank(model_calls[j].stage) <= StageRank(model_calls[k].stage)
    /\ apc \in {"filtered", "segment", "analyze"} =>
          CallsOfStage(body.uuid, "filter") = NumBatches(Len(body.user_df))
    /\ apc = "analyze" =>
          CallsOfStage(body.uuid, "segment") = SegmentBatches(body.time_sessions)

\* a user with several filter batches and several segmented sessions is in
\* the analysis of the segments
C27_Witness ==
    /\ apc = "analyze"
    /\ CallsOfStage(body.uuid, "filter") > 1
    /\ CallsOfStage(body.uuid, "segment") > 1
    /\ CallsOfStage(body.uuid, "analyze") > 1

\* the call names neither a file nor a frame
NoDataSource(call) ==
    call.preloaded_df = None /\ call.csv_path \in {None, Some("")}

\* the call asks for the user u: for every user when it names none
Requested(call, u) ==
    \/ call.user = None
    \/ call.pipeline = "staged" /\ call.user[1] \in {"", u}
    \/ call.pipeline # "staged"
          /\ (Len(call.user[1]) = 0 \/ \E k \in DOMAIN call.user[1] : call.user[1][k] = u)

\* the data of the call holds no row of a user the call asks for
NoRequestedRow(call, file) ==
    /\ ~NoDataSource(call)
    /\ LET frame == IF call.preloaded_df # None THEN call.preloaded_df[1] ELSE file
       IN \A k \in DOMAIN frame : ~Requested(call, frame[k].user_uuid)

\* C28: a call of analyze_user_intent (either pipeline) without data source,
\* or on data without a row of the users it asks for, returns at once a
\* dictionary with the key 'error' and issues no model call.
C28_MissingInputIsError ==
    [][ (apc = "load" /\ (NoDataSource(Call) \/ NoRequestedRow(Call, data_csv)))
            => /\ apc' = "returned"
               /\ "error" \in DOMAIN results'
               /\ model_calls' = model_calls ]_vars

\* a call for a user that its (non-empty) data does not hold has returned
C28_Witness ==
    /\ apc = "returned"
    /\ Call.user # None
    /\ Call.user = IF Call.pipeline = "staged" THEN Some("Z") ELSE Some(<<"Z">>)
    /\ ~NoDataSource(Call)
    /\ LoadedFrame(Call, data_csv) # None
    /\ Len(LoadedFrame(Call, data_csv)[1]) > 0
    /\ results = ErrorResult("no user data")
    /\ model_calls = <<>>

\* the logged calls of a stage for a user that were sent exactly the rows of
\* one time session, indexed from 0
SessionBatches(uuid, stage_name, time_session) ==
    { k \in DOMAIN model_calls :
        /\ model_calls[k].uuid = uuid
        /\ model_calls[k].stage = stage_name
        /\ model_calls[k].start_index = 0
        /\ model_calls[k].rows = RowIds(time_session) }

\* C29: when the segments of a user are analysed (every row of the user having
\* passed the filter), the 120 events in 3 clusters have made 3 time sessions,
\* and every time session of at most 50 rows was sent to the model as exactly
\* one filter batch and (when longer than 5 rows) exactly one segmentation
\* batch, both holding the rows of that session indexed from 0.
C29_BatchesPerTimeSession ==
    (apc = "analyze" /\ body.valid_actions = body.user_df) =>
        /\ body.user_df = BigData => Len(body.time_sessions) = 3
        /\ \A s \in DOMAIN body.time_sessions :
              Len(body.time_sessions[s]) <= MAX_ACTIONS_PER_BATCH =>
                 /\ Cardinality(SessionBatches(body.uuid, "filter",
                                               body.time_sessions[s])) = 1
                 /\ Len(body.time_sessions[s]) > 5 =>
                       Cardinality(SessionBatches(body.uuid, "segment",
                                                  body.time_sessions[s])) = 1

\* the analysis calls logged for a user, in the order they were issued
AnalysisCalls(uuid) ==
    SelectSeq(model_calls, LAMBDA c : c.stage = "analyze" /\ c.uuid = uuid)

\* C30: while the segments of a user are analysed, the analysis calls issued
\* for that user so far are those of its first segments in segment order; the
\* first was handed no history (whatever was analysed for other users
\* before), and the call for every later segment was handed the result that
\* the analysis of the segment before it, of the same user, returned.
C30_HistoryFold ==
    apc = "analyze" =>
        /\ Len(AnalysisCalls(body.uuid)) = body.segment_idx
        /\ Len(body.session_results) = body.segment_idx
        /\ \A n \in 1 .. body.segment_idx :
              /\ AnalysisCalls(body.uuid)[n].rows = RowIds(body.all_intent_segments[n])
              /\ body.session_results[n].intent_result.of = <<body.uuid, n - 1>>
              /\ AnalysisCalls(body.uuid)[n].history =
                    IF n = 1 THEN None ELSE Some(body.session_results[n - 1])
        /\ body.history =
              IF body.segment_idx = 0 THEN None
              ELSE Some(body.session_results[body.segment_idx])

\* the second segment of a user has been analysed after segments of another
\* user
C30_Witness ==
    /\ apc = "analyze"
    /\ body.segment_idx >= 2
    /\ \E k \in DOMAIN model_calls :
          model_calls[k].stage = "analyze" /\ model_calls[k].uuid # body.uuid

(***************************************************************************)
(* Claims on the recommendation post-pass (SpecPostPass)                   *)
(***************************************************************************)
\* a session with a non-empty operation_recommendation
Annotated(session) ==
    /\ session.operation_recommendation # None
    /\ session.operation_recommendation[1] # <<>>

\* the positions (entry, session) of the sessions of a document
SessionPositions(doc) ==
    UNION { { <<u, k>> : k \in DOMAIN doc[u].sessions } : u \in DOMAIN doc }

\* C25: writers running at the same time on the result document never lose
\* each other's updates: a recommendation that is in the file stays in the
\* file at every write.
C25_NoLostUpdate ==
    [][ \A pos \in SessionPositions(intent_results_file.doc) :
           Annotated(intent_results_file.doc[pos[1]].sessions[pos[2]])
              => Annotated(intent_results_file'.doc[pos[1]].sessions[pos[2]]) ]_vars

\* the requests a run of a writer made for a session
RequestsFor(w, run, doc, pos) ==
    CopiesIn([writer |-> w, run |-> run, user_uuid |-> doc[pos[1]].user_uuid,
              session_index |-> doc[pos[1]].sessions[pos[2]].session_index],
             requests)

\* C26: when a run of the post-pass has written the document, every session
\* that had a non-empty recommendation in the document read got no request
\* and is written as it was read; every other session got exactly one
\* request; the entries without sessions are written as read; and a run that
\* read what a run without any failed request had written made no request
\* and wrote the same file.
C26_PostPassIdempotent ==
    \A w \in 1 .. Writers :
        (passes[w].pc = "idle" /\ passes[w].run > 0) =>
            LET p == passes[w]
                read == p.loaded.doc
                wrote == p.written.doc
            IN /\ DOMAIN wrote = DOMAIN read
               /\ \A pos \in SessionPositions(read) :
                     IF Annotated(read[pos[1]].sessions[pos[2]])
                     THEN /\ RequestsFor(w, p.run, read, pos) = 0
                          /\ wrote[pos[1]].sessions[pos[2]] = read[pos[1]].sessions[pos[2]]
                     ELSE RequestsFor(w, p.run, read, pos) = 1
               /\ \A u \in DOMAIN read : ~read[u].has_sessions => wrote[u] = read[u]
               /\ (p.run > 1 /\ p.prev_failed = 0 /\ p.loaded = p.prev_written) =>
                     /\ p.made = 0 /\ p.failed = 0
                     /\ p.written = p.loaded

\* a second run has read what the first run, which made requests and had no
\* failure, had written, and has written the file itself
C26_Witness ==
    \E w \in 1 .. Writers :
        /\ passes[w].pc = "idle" /\ passes[w].run = 2
        /\ passes[w].prev_made > 0 /\ passes[w].prev_failed = 0
        /\ passes[w].loaded = passes[w].prev_written
        /\ passes[w].made = 0
        /\ \E pos \in SessionPositions(passes[w].prev_written.doc) :
              passes[w].prev_written.doc[pos[1]].sessions[pos[2]].operation_recommendation
                  = Some(<<0>>)

(***************************************************************************)
(* Claims on the fallbacks of the batch stages (SpecUser)                  *)
(***************************************************************************)
BatchSites == {"_ai_filter_batch", "_ai_segment_batch"}

\* the model call of the batch has failed for good: the exception of its
\* last attempt is one that is never retried, or it was the last attempt
\* allowed
BatchCallFailed ==
    /\ call_site \in BatchSites
    /\ call_log # <<>> /\ LastCall \in Errors
    /\ NonRetryable(LastCall) \/ Len(call_log) = max_retries

\* C31: a validity-filter batch whose model call has failed returns all the
\* indices of the batch, a segmentation batch whose model call has failed
\* returns the batch as one segment, and neither ever raises; the per-user
\* code goes on as after any batch: after the failed filter batch the user
\* is windowed and segmented, after a failed segmentation batch exactly one
\* segment is added and the next time session gets its own batch.
C31_StageFallbacks ==
    /\ [](call_site \in BatchSites => call_outcome.kind # "raised")
    /\ [](BatchCallFailed =>
             /\ rpc = "done"
             /\ call_outcome =
                   ReturnOf([type |-> IF call_site = "_ai_filter_batch"
                                      THEN "all_indices" ELSE "single_segment",
                             str |-> <<>>]))
    /\ [][ (BatchCallFailed /\ upc = "filtered")
              => (upc' = "segment" /\ user_outcome' = "running") ]_vars
    /\ [][ (BatchCallFailed /\ upc = "segmented")
              => /\ Len(pending_segments') = Len(pending_segments) + 1
                 /\ session_idx' = session_idx + 1
                 /\ upc' = "segment" /\ user_outcome' = "running" ]_vars

\* the segmentation batch of the first of two time sessions has failed on its
\* third attempt and has returned its fallback
C31_Witness ==
    /\ pipeline = "staged" /\ upc = "segmented"
    /\ session_idx = 1 /\ time_sessions = 2
    /\ BatchCallFailed /\ Len(call_log) = max_retries
    /\ call_outcome.kind = "returned"
    /\ call_outcome.value.type = "single_segment"

(***************************************************************************)
(* SpecRepair: one text is given to one of the two text helpers of the     *)
(* resilient parsers, _fix_json_comma_errors and _extract_json_safely      *)
(***************************************************************************)
\* objects whose strings hold braces and escaped quotes
BraceBodies ==
    { Obj(<<Key("a") \o Str(<<"}">>)>>),
      Obj(<<Key("a") \o Str(<<"{">>), Key("b") \o <<"1">>>>),
      Obj(<<Key("a") \o Str(<<BACKSLASH, QUOTE, "}">>)>>),
      Obj(<<Key("a") \o Str(<<"x", BACKSLASH, BACKSLASH>>), Key("b") \o <<"1">>>>),
      Obj(<<Key("a") \o Obj(<<Key("b") \o Str(<<"}", "}">>)>>)>>),
      Obj(<<Key("a") \o Obj(<<Key("b") \o <<"1">>>>), Key("c") \o <<"null">>>>),
      <<"{", "oops", "}">>, <<"{", "}">> }

\* objects that never close: cut short, or closed only inside a string
OpenBodies ==
    { <<"{">> \o Key("a") \o <<"1">>,
      <<"{">> \o Key("a") \o <<QUOTE, "x", "}">>,
      <<"{">> \o Key("a") \o <<"{">> \o Key("b") \o <<"1", "}">>,
      <<"{", "{", "{">> }

Prefixes == { <<>>, <<"Here", ":", " ">>, <<"}", " ">>, <<QUOTE, "hi", " ">> }
Suffixes == { <<>>, <<" ", "done">>, <<" ", "}">>, <<" ", "{", "x">> }

\* a body with prose around it; `at` is the position of the body
Wrapped(bodies, kind) ==
    { [text |-> pre \o b \o suf,
       origin |-> [kind |-> kind, document |-> b, at |-> Len(pre) + 1]] :
          <<pre, b, suf>> \in Prefixes \X bodies \X Suffixes }

RepairTexts ==
    Responses("filter", 0) \cup Responses("analysis", 0)
        \cup Wrapped(BraceBodies \cup AnalysisDocuments, "wrapped")
        \cup Wrapped(OpenBodies, "open")

InitRepair ==
    /\ parser \in {"_fix_json_comma_errors", "_extract_json_safely"}
    /\ parser_len = 0 /\ parser_start = 0
    /\ \E r \in RepairTexts :
           ai_response = r.text /\ response_origin = r.origin
    /\ parsed = <<>>
    /\ ppc = "received"
    /\ WindowIdle /\ BatchIdle /\ RetryIdle /\ UserIdle
    /\ AnalyzeIdle /\ PostPassIdle

\* _fix_json_comma_errors(json_str)
FixJsonCommaErrors ==
    /\ ppc = "received" /\ parser = "_fix_json_comma_errors"
    /\ parsed' = _fix_json_comma_errors(ai_response)
    /\ ppc' = "parsed"
    /\ UNCHANGED <<ai_response, response_origin, parser, parser_len, parser_start,
                   wvars, bvars, rvars, uvars>>
    /\ UNCHANGED <<avars, gvars>>

\* _extract_json_safely(text)
ExtractJsonSafely ==
    /\ ppc = "received" /\ parser = "_extract_json_safely"
    /\ parsed' = _extract_json_safely(ai_response)
    /\ ppc' = "parsed"
    /\ UNCHANGED <<ai_response, response_origin, parser, parser_len, parser_start,
                   wvars, bvars, rvars, uvars>>
    /\ UNCHANGED <<avars, gvars>>

NextRepair == FixJsonCommaErrors \/ ExtractJsonSafely

SpecRepair == InitRepair /\ [][NextRepair]_vars

(***************************************************************************)
(* Claims on the text helpers (SpecRepair)                                 *)
(***************************************************************************)
CommaFixed == ppc = "parsed" /\ parser = "_fix_json_comma_errors"
Extracted == ppc = "parsed" /\ parser = "_extract_json_safely"

\* the lexeme at q is escaped by a backslash that is not itself escaped
RECURSIVE Escaped(_, _, _)
Escaped(text, from, q) ==
    q > from /\ text[q - 1] = BACKSLASH /\ ~Escaped(text, from, q - 1)

\* position i of the text is inside a string that opened at or after `from`
InsideString(text, from, i) ==
    Cardinality({ q \in from .. i - 1 :
                    text[q] = QUOTE /\ ~Escaped(text, from, q) }) % 2 = 1

\* the last lexeme before i that is no white space, "" when there is none
RECURSIVE LastBefore(_, _)
LastBefore(text, i) ==
    IF i <= 1 THEN ""
    ELSE IF text[i - 1] \in Whitespace THEN LastBefore(text, i - 1)
    ELSE text[i - 1]

EndsValue(x) == x \in {"}", "]", QUOTE, "true", "false", "null"} \/ IsDecimal(x)

\* outside every string, a token that ends a value is followed, white space
\* ignored, by the opening quote at i of a new key
KeyFollowsValue(text, i) ==
    /\ text[i] = QUOTE /\ ~Escaped(text, 1, i) /\ ~InsideString(text, 1, i)
    /\ EndsValue(LastBefore(text, i))
    /\ HasSub(SubSeq(text, i, Min(i + 19, Len(text))), <<QUOTE, ":">>)

\* the text with a comma before every such quote, and nothing else changed
RECURSIVE WithCommas(_, _)
WithCommas(text, i) ==
    IF i > Len(text) THEN <<>>
    ELSE (IF KeyFollowsValue(text, i) THEN <<",", text[i]>> ELSE <<text[i]>>)
             \o WithCommas(text, i + 1)

\* C32: _fix_json_comma_errors puts a comma wherever, outside a string, a
\* token that ends a value is followed (white space ignored) by the opening
\* quote of a new key, and leaves every other position of the text as it is.
C32_CommaInserted ==
    CommaFixed => parsed = WithCommas(ai_response, 1)

\* the brace at q counts from the opening brace at s: it is neither escaped
\* nor inside a string that opened after s
Counted(text, s, q) ==
    /\ text[q] \in {"{", "}"}
    /\ ~Escaped(text, s, q) /\ ~InsideString(text, s, q)

Depth(text, s, e) ==
    Cardinality({ q \in s .. e : Counted(text, s, q) /\ text[q] = "{" })
        - Cardinality({ q \in s .. e : Counted(text, s, q) /\ text[q] = "}" })

\* the closing brace that matches the opening brace at s, 0 when none does
MatchingBrace(text, s) ==
    LET ends == { e \in s + 1 .. Len(text) :
                    Counted(text, s, e) /\ text[e] = "}" /\ Depth(text, s, e) = 0 }
    IN IF ends = {} THEN 0 ELSE CHOOSE e \in ends : \A d \in ends : e <= d

\* no piece of the text from an opening brace to a closing brace parses
NoCandidateParses(text) ==
    \A s \in 1 .. Len(text) : \A e \in s + 1 .. Len(text) :
        (text[s] = "{" /\ text[e] = "}") => ~Validates(SubSeq(text, s, e))

\* C34: when the first opening brace of the text opens a balanced object,
\* _extract_json_safely returns exactly the text from that brace to the
\* brace that matches it, braces inside strings not counted and escaped
\* quotes honoured; when no opening brace balances and no candidate parses
\* it returns None.
C34_BalancedBraces ==
    Extracted =>
        LET text == ai_response
            s == Find(text, "{")
        IN /\ (s > 0 /\ MatchingBrace(text, s) > 0)
                 => parsed = [found |-> TRUE,
                              json |-> SubSeq(text, s, MatchingBrace(text, s))]
           /\ ((\A q \in 1 .. Len(text) :
                    text[q] = "{" => MatchingBrace(text, q) = 0)
               /\ NoCandidateParses(text))
                 => parsed = [found |-> FALSE, json |-> <<>>]

\* an object whose string holds an escaped quote and a closing brace, with
\* prose before it and a stray brace after it, is returned as it is
C34_Witness ==
    /\ Extracted /\ response_origin.kind = "wrapped"
    /\ response_origin.at > 1
    /\ HasSub(response_origin.document, <<BACKSLASH, QUOTE, "}">>)
    /\ ai_response[Len(ai_response)] = "}"
    /\ Len(ai_response) > response_origin.at + Len(response_origin.document)
    /\ parsed = [found |-> TRUE, json |-> response_origin.document]

(***************************************************************************)
(* SpecLayers: the two list parsers on responses that reach every layer:   *)
(* the responses of SpecParse, documents with prose around them, and       *)
(* documents whose objects carry the free text of the prompts ("reason",   *)
(* lines 280-282; "intent_description", line 935)                          *)
(***************************************************************************)
ReasonedVerdicts(start_index) ==
    { Obj(<<Key("valid_actions")
              \o Arr(<<Obj(<<Key("index") \o Num(a), Key("is_valid") \o Bool(TRUE),
                            Key("reason") \o Str(t)>>),
                       Obj(<<Key("is_valid") \o Bool(v), Key("index") \o Num(b)>>)>>)>>) :
          <<a, b, v, t>> \in DocIndices(start_index) \X DocIndices(start_index)
                               \X BOOLEAN \X IntentTexts }

DescribedSegments(start_index) ==
    { Obj(<<Key("intent_segments")
              \o Arr(<<Obj(<<Key("segment_index") \o Num(0),
                            Key("intent_description") \o Str(t),
                            Key("behavior_indices")
                                \o Arr([j \in 1 .. Len(ls) |-> Num(ls[j])])>>)>>)>>) :
          <<ls, t>> \in SegmentLists(start_index) \X IntentTexts }

LayerDocuments(p, start_index) ==
    IF p = "filter"
    THEN ReasonedVerdicts(start_index)
             \cup { d \in FilterDocuments(start_index) : Len(d) <= 30 }
    ELSE DescribedSegments(start_index)
             \cup { d \in SegmentDocuments(start_index) : Len(d) <= 30 }

LayerResponses(p, start_index) ==
    Garbage
        \cup UNION { Variants(doc) : doc \in LayerDocuments(p, start_index) }
        \cup { w \in Wrapped(LayerDocuments(p, start_index), "wrapped") :
                  w.origin.at \in {1, 4} }

InitLayers ==
    /\ parser \in {"filter", "segments"}
    /\ parser_len = MaxRows
    /\ parser_start \in {0, MAX_ACTIONS_PER_BATCH}
    /\ \E r \in LayerResponses(parser, parser_start) :
           ai_response = r.text /\ response_origin = r.origin
    /\ parsed = <<>>
    /\ ppc = "received"
    /\ WindowIdle /\ BatchIdle /\ RetryIdle /\ UserIdle
    /\ AnalyzeIdle /\ PostPassIdle

NextLayers == ParseValidActionIndices \/ ParseIntentSegments

SpecLayers == InitLayers /\ [][NextLayers]_vars

(***************************************************************************)
(* Claims on the order of the layers (SpecLayers)                          *)
(***************************************************************************)
\* the elements a layer reads from the text it produced, Raised when the
\* text does not load
LayerValue(p, loaded, n, start_index) ==
    IF ~loaded.ok THEN Raised
    ELSE IF p = "filter" THEN LoadedValidIndices(loaded.val, n, start_index)
    ELSE LoadedSegments(loaded.val, DataFrame(n), start_index)

Yields(got) == ~got.raised /\ Len(got.value) > 0

\* the text between the first opening and the last closing brace
BraceSlice(text) ==
    IF Find(text, "{") > 0 /\ RFind(text, "}") > Find(text, "{")
    THEN <<SubSeq(text, Find(text, "{"), RFind(text, "}"))>>
    ELSE <<>>

\* the texts of the JSON layers in their order: direct parse, format repair,
\* safe extraction, aggressive stripping
LayerTextsOf(slice, extracted) ==
    slice
        \o [k \in 1 .. Len(slice) |-> _fix_json_format(slice[k])]
        \o [k \in 1 .. Len(extracted) |-> _fix_json_format(extracted[k])]
        \o Concat([k \in 1 .. Len(extracted) |-> Tail(RepairAttempts(extracted[k]))])
ExtractionOf(extracted) == IF extracted.found THEN <<extracted.json>> ELSE <<>>
LayerTexts(text) ==
    LayerTextsOf(BraceSlice(text), ExtractionOf(_extract_json_safely(text)))

\* regex field extraction, then the ultimate fallback; the segmentation
\* parser has two regex blocks, lines 1047-1065 and 1070-1103
RegexLayers(p, block, text, n, start_index) ==
    IF p = "filter" THEN _extract_indices_with_regex_text(text, n, start_index)
    ELSE IF block = "inline" THEN InlineSegments(text, DataFrame(n), start_index)
    ELSE Returned(_extract_segments_with_regex_text(text, DataFrame(n), start_index))

RECURSIVE EarliestLayer(_, _, _, _, _, _, _)
EarliestFrom(got, p, block, texts, k, text, n, start_index) ==
    IF Yields(got) THEN got
    ELSE EarliestLayer(p, block, texts, k + 1, text, n, start_index)
EarliestLayer(p, block, texts, k, text, n, start_index) ==
    IF k > Len(texts) THEN RegexLayers(p, block, text, n, start_index)
    ELSE EarliestFrom(LayerValue(p, json_loads(texts[k]), n, start_index),
                      p, block, texts, k, text, n, start_index)

\* C33: the value the list parsers return is the value of the earliest
\* layer, in the order direct parse, format repair, safe extraction,
\* aggressive stripping, regex field extraction, ultimate fallback, that
\* gives the expected key with at least one element.
C33_LayerOrder ==
    (Filtered \/ Segmented) =>
        \E block \in {"inline", "function"} :
            parsed = EarliestLayer(IF Filtered THEN "filter" ELSE "segments",
                                   block, LayerTexts(ai_response), 1,
                                   ai_response, parser_len, parser_start)

(***************************************************************************)
(* Claims on the result of the validity filter (SpecBatch)                 *)
(***************************************************************************)
\* the response is well formed and accepts no row of the batch
AcceptsNoRow(call) ==
    /\ call.response.kind = "json"
    /\ \A j \in 1 .. Len(call.response.valid_actions) :
           \/ ~call.response.valid_actions[j].is_valid
           \/ call.response.valid_actions[j].index \notin Range(SentIndices(call))

\* C35: for a batch that is not empty the validity filter never returns an
\* empty list: a well-formed response that marks no index of the batch as
\* valid gives every index of the batch; so filter_valid_actions keeps at
\* least one row of a user who has at least one event.
C35_FilterNeverEmpty ==
    /\ \A k \in Latest :
           (stage = "filter" /\ BatchLen(calls[k]) > 0) =>
               /\ Len(calls[k].result) > 0
               /\ AcceptsNoRow(calls[k]) => calls[k].result = SentIndices(calls[k])
    /\ (stage = "filter" /\ entry = "public" /\ bpc = "done" /\ N > 0)
           => Len(valid_actions) > 0

\* the second batch of a user with 52 events is answered with one verdict,
\* is_valid = false: both rows of the batch are kept
C35_Witness ==
    /\ stage = "filter" /\ entry = "public" /\ bpc = "done"
    /\ N = MAX_ACTIONS_PER_BATCH + 2 /\ Len(calls) = 2
    /\ calls[2].response.kind = "json"
    /\ calls[2].response.valid_actions
           = <<[index |-> MAX_ACTIONS_PER_BATCH, is_valid |-> FALSE]>>
    /\ calls[2].result = <<MAX_ACTIONS_PER_BATCH, MAX_ACTIONS_PER_BATCH + 1>>
    /\ Len(valid_actions) >= 2

(***************************************************************************)
(* Claims on the results of the single-call pipeline (SpecAnalyze)         *)
(***************************************************************************)
\* the single-call analyze_user_intent has returned a result per user
SingleCallReturned ==
    /\ apc = "returned" /\ work_idx <= Len(plan)
    /\ Call.pipeline = "single_call"
    /\ "error" \notin DOMAIN results

SessionSizes(user_result) ==
    [k \in 1 .. Len(user_result.sessions) |-> user_result.sessions[k].session_size]

\* C38: in every UserResult of the single-call pipeline total_sessions is
\* the number of entries of sessions, total_actions_valid and
\* total_actions_analyzed are the sum of their session_size, and that sum is
\* at most total_actions_original, whatever index lists the model returned.
C38_ResultCounts ==
    SingleCallReturned =>
        \A u \in DOMAIN results :
            /\ results[u].total_sessions = Len(results[u].sessions)
            /\ results[u].total_actions_valid = SumSeq(SessionSizes(results[u]))
            /\ results[u].total_actions_analyzed = results[u].total_actions_valid
            /\ results[u].total_actions_valid <= results[u].total_actions_original

\* two deterministic models: the answer to the comprehensive call for time
\* session s (of n rows) of user u is a function of u, s and n
Models == {"plain", "mixed"}
Answer(m, u, s, n) ==
    IF m = "plain" \/ (u # "B" /\ s = 1)
    THEN [kind |-> "result", of |-> <<u, s>>, intent_segments |-> <<RangeList(0, n)>>]
    ELSE IF u = "B"
    THEN [kind |-> "result", of |-> <<u, s>>,
          intent_segments |-> <<RangeList(0, n), RangeList(0, n)>>]
    ELSE [kind |-> "raised", of |-> <<u, s>>, intent_segments |-> <<>>]

\* the entries the answers of model m give for the time sessions of a user
AnswerEntries(m, u, time_sessions_of_u) ==
    Concat([s \in 1 .. Len(time_sessions_of_u) |->
               IntentResults(Answer(m, u, s, Len(time_sessions_of_u[s])))])

\* every answer the tasks have received so far is the answer of model m
Conforms(m) ==
    \A i \in DOMAIN tasks :
        tasks[i].all_session_results
            = AnswerEntries(m, tasks[i].uuid,
                  SubSeq(tasks[i].time_sessions, 1, tasks[i].session_idx - 1))

\* the users that have a row in the data analysed
UsersOf(frame) == { frame[k].user_uuid : k \in 1 .. Len(frame) }

\* what user u gets under model m, from the rows of u alone
ExpectedResult(m, u, rows) ==
    LET entries == AnswerEntries(m, u,
                       group_user_actions_by_session(rows, CallerTimeout))
    IN [user_uuid |-> u, total_sessions |-> Len(entries),
        total_actions_original |-> Len(rows),
        total_actions_valid |-> SumSeq([k \in 1 .. Len(entries) |-> entries[k].session_size]),
        total_actions_analyzed |-> SumSeq([k \in 1 .. Len(entries) |-> entries[k].session_size]),
        sessions |-> entries]

AllEnded == \A i \in DOMAIN tasks : tasks[i].state = "done"

Segmenting == stage = "segment" /\ entry = "public"

\* C39: segment_actions_by_intent asks the model nothing for a short input:
\* no action gives the empty list, 1 to 5 actions give exactly one segment
\* that holds all of them in order; the model is consulted only for more
\* than 5 actions.
C39_ShortInputs ==
    Segmenting =>
        /\ N <= 5 => calls = <<>>
        /\ bpc = "done" =>
               /\ N = 0 => all_segments = <<>>
               /\ (1 <= N /\ N <= 5) => all_segments = <<actions>>
               /\ N > 5 => Len(calls) >= 1

\* five actions have come back as one segment without a call
C39_Witness ==
    /\ Segmenting /\ bpc = "done" /\ N = 5
    /\ calls = <<>> /\ all_segments = <<DataFrame(5)>>


BatchOf(row) == row.row_id \div MAX_ACTIONS_PER_BATCH

\* C40: when a time session is segmented in several batches, every returned
\* segment holds rows of one batch only, and the segments come in the order
\* of their batches.
C40_SegmentsPerBatch ==
    (stage = "segment" /\ N > MAX_ACTIONS_PER_BATCH) =>
        /\ \A s \in 1 .. Len(all_segments) :
               /\ Len(all_segments[s]) > 0
               /\ \A r \in 1 .. Len(all_segments[s]) :
                      /\ all_segments[s][r].row_id \in 0 .. N - 1
                      /\ BatchOf(all_segments[s][r]) = BatchOf(all_segments[s][1])
        /\ \A s \in 1 .. Len(all_segments) - 1 :
               BatchOf(all_segments[s][1]) <= BatchOf(all_segments[s + 1][1])

\* two batches have been segmented, one of them in two segments
C40_Witness ==
    /\ stage = "segment" /\ bpc = "done" /\ Len(calls) = 2
    /\ Len(all_segments) = 3
    /\ BatchOf(all_segments[1][1]) = 0
    /\ BatchOf(all_segments[3][1]) = 1

====
